---- MODULE Spec2Model ----
(***************************************************************************)
(* Register-level model of the SPI flash driver rvlib_spiflash.c.          *)
(*                                                                         *)
(* The driver is modelled one register access per step.  The SPI           *)
(* controller and the flash device are hardware that is not part of the    *)
(* driver source; they are modelled from the register map, the command     *)
(* set and the flag-status bits of the design description.                 *)
(***************************************************************************)
EXTENDS Integers, Sequences, FiniteSets, TLC

(***************************************************************************)
(* Bounds of the model.                                                    *)
(***************************************************************************)
\* Width in bits of the model's cycle counter (uint64_t in the code).
CounterWidth == 3
\* Microseconds per tick of the model's cycle counter.
TickUs == 1000000
\* Flag queries one completion poll may issue before the model stops it.
MaxPolls == 3
\* Bytes the controller accepts ahead of the one being shifted, plus one.
CmdDepth == 1
\* Longest reply a read_mem call of the model asks for.
MaxRead == 2
\* Bytes the test sequences program on a page (bootmon programs 24).
TestLen == 2
\* Bytes the test sequences read back at a page start (bootmon reads 32).
TestWindow == 3

(***************************************************************************)
(* Constants of the driver.                                                *)
(***************************************************************************)
RVLIB_SPIFLASH_BIT_STATUS_BUSY == 0
RVLIB_SPIFLASH_BIT_STATUS_CMDRDY == 1
RVLIB_SPIFLASH_BIT_STATUS_READRDY == 2

SPIFLASH_PROGRAM_TIMEOUT_US == 5000
SPIFLASH_ERASE_TIMEOUT_US == 3000000

\* 0x9f, 0x03, 0x06, 0x70, 0x50, 0x02, 0xd8
SPIFLASH_CMD_READ_ID == 159
SPIFLASH_CMD_READ == 3
SPIFLASH_CMD_WRITE_ENABLE == 6
SPIFLASH_CMD_READ_FLAGS == 112
SPIFLASH_CMD_CLEAR_FLAGS == 80
SPIFLASH_CMD_PAGE_PROGRAM == 2
SPIFLASH_CMD_SECTOR_ERASE == 216
SPIFLASH_BIT_FLAGS_PROGRAM_ERROR == 4
SPIFLASH_BIT_FLAGS_ERASE_ERROR == 5
SPIFLASH_BIT_FLAGS_READY == 7

RVLIB_SPIFLASH_ERR_FAILED == -1
RVLIB_SPIFLASH_ERR_TIMEOUT == -2
RVLIB_SPIFLASH_ERR_NOTREADY == -3

\* The value written to DATA to clock in one byte (0x100).
DUMMY_REQUEST == 256
\* The byte init sends twice before CLEAR_FLAGS (0xff).
RECOVERY_BYTE == 255

(***************************************************************************)
(* Arithmetic of the C code.                                               *)
(***************************************************************************)
\* (v & (1 << k)) != 0
BitSet(v, k) == (v \div (2 ^ k)) % 2 = 1

\* Mutant: the value is passed on untruncated.
ToUint8Wide(v) == v

\* Conversion of a uint32_t expression to the uint8_t parameter of
\* spi_send_byte.
ToUint8(v) == v % 256

\* v >> k
ShiftRight(v, k) == v \div (2 ^ k)

\* Bitwise AND of two bytes.
RECURSIVE ByteAnd(_, _)
ByteAnd(a, b) ==
    IF a = 0 \/ b = 0 THEN 0
    ELSE 2 * ByteAnd(a \div 2, b \div 2) + (IF a % 2 = 1 /\ b % 2 = 1 THEN 1 ELSE 0)

CounterModulus == 2 ^ CounterWidth

\* Ticks of the model counter that RVLIB_CPU_FREQ_MHZ * timeout_us cycles
\* take, rounded up.
TimeoutTicks(t_us) == (t_us + TickUs - 1) \div TickUs

\* end_time - time_now as an unsigned value of the counter's width.
Remaining(endt, nowt) == (endt - nowt + CounterModulus) % CounterModulus

\* Mutant: the deadline is compared without the unsigned subtraction.
DeadlineExpiredNoWrap(endt, nowt) == nowt > endt

\* tremain >= 1 << (width - 1)
DeadlineExpired(endt, nowt) == Remaining(endt, nowt) >= CounterModulus \div 2

(***************************************************************************)
(* Inputs the callers of the model pass.                                   *)
(***************************************************************************)
\* 0x7F0000 (the sector bootmon's write test uses) and the same address
\* with bit 24 set.
AddrInputs == {8323072, 25100288}

\* Payloads of page_program.
Payloads == {<<>>, <<165>>, <<165, 90>>}

\* Bytes a previous session may have left in the controller's receive queue.
StaleQueues == {<<>>, <<238>>, <<238, 17>>}

\* Requests of a previous session the controller may still be shifting
\* when init is called: none (idle) or one dummy request (busy).
StaleRequests == {<<>>, <<DUMMY_REQUEST>>}

\* Counter values a completion poll may start at: no wraparound of the
\* deadline, and wraparound.
StartTimes == {0, CounterModulus - 1}

\* The caller runs no test sequence: it calls any operation at any time.
NoTest == [name |-> "none", addr |-> 0, len |-> 0, pos |-> 0, results |-> <<>>]

VARIABLES
    \* the caller and the public operation in progress
    op, step, address, data, nbytes, ret, inited, devid,
    \* history: the last program or erase call returned FAILED
    afterFailed,
    \* the test sequence the caller runs, if any, and the results so far
    test,
    \* locals of the public operation and of spiflash_poll_completion
    flags, timeout_us, end_time, time_now, npolls,
    \* the cycle counter's value when the poll loop last acted on a flag byte
    cycle_counter,
    \* the command function in progress: its calls of the bus primitives,
    \* the one in progress, and the locals of the primitives
    prog, ip, pc, status, p, ncmd, buf,
    \* history: the bytes the controller held or owed when the spi_read_bytes
    \* in progress was entered
    entry_rx,
    \* the last register access and the DATA / SLAVESEL accesses of the
    \* current public operation
    acc, log,
    \* history: the device has raised the error flag of an operation that the
    \* current call started
    faulted,
    \* SPI controller
    txq, rxq, cs,
    \* flash device
    dev,
    \* spiflash_subcommand of bootmon: the text left to parse and the results
    \* of its parse_uint calls
    pcmd, parsed,
    \* read_command of bootmon: the buffer with the byte behind it, the
    \* locals pos and c, the echo switch, the characters echoed, the loop's
    \* position, and as history the number of characters received and the
    \* indices written
    cmdbuf, pos, recv_c, cmd_echo, echoed, reading, nrecv, written,
    \* test_interrupt: the CSRs mstatus and mie, the timer's counter and
    \* compare register, the globals, the loop variable i of test_timer, the
    \* position of the program, its exit status, and as history the
    \* test_state at each entry of handle_unexpected_trap and whether a timer
    \* interrupt was taken outside the wait it ends
    mstatus, mie, counter, timecmp, timer_count_interrupts,
    timer_next_interrupt, test_state, timer_i, main_pc, exit_status, traps,
    untimely

parseVars == <<pcmd, parsed>>
\* The programs next to the driver: bootmon's command line, the interrupt
\* test.
readVars == <<cmdbuf, pos, recv_c, cmd_echo, echoed, reading, nrecv, written>>
irqVars == <<mstatus, mie, counter, timecmp, timer_count_interrupts,
             timer_next_interrupt, test_state, timer_i, main_pc, exit_status,
             traps, untimely>>
appVars == <<parseVars, readVars, irqVars>>
callVars == <<op, step, address, data, nbytes, ret, inited, devid, afterFailed,
              test, appVars>>
pollVars == <<flags, timeout_us, end_time, time_now, npolls, cycle_counter>>
busVars == <<prog, ip, pc, status, p, ncmd, buf, entry_rx>>
traceVars == <<acc, log, faulted>>
ctrlVars == <<txq, rxq, cs>>
vars == <<callVars, pollVars, busVars, traceVars, ctrlVars, dev>>

(***************************************************************************)
(* The SPI controller: STATUS (+0), SLAVESEL (+4), DATA (+8).              *)
(***************************************************************************)
RVLIB_SPIFLASH_REG_STATUS == 0
RVLIB_SPIFLASH_REG_SLAVESEL == 4
RVLIB_SPIFLASH_REG_DATA == 8

\* STATUS: BUSY while a byte is queued or being shifted, CMD_READY while
\* the command queue has room, READ_READY while a received byte waits.
StatusReg ==
    (IF txq # <<>> THEN 2 ^ RVLIB_SPIFLASH_BIT_STATUS_BUSY ELSE 0)
    + (IF Len(txq) < CmdDepth THEN 2 ^ RVLIB_SPIFLASH_BIT_STATUS_CMDRDY ELSE 0)
    + (IF rxq # <<>> THEN 2 ^ RVLIB_SPIFLASH_BIT_STATUS_READRDY ELSE 0)

(***************************************************************************)
(* The flash device.                                                       *)
(***************************************************************************)
PageSize == 256
SectorSize == 65536
AddressBits == 24
FlashSize == 8388608

(***************************************************************************)
(* The test sequences of the caller: spiflash_writetest of bootmon, and    *)
(* the erase-twice and program-and-read-back sequences.                    *)
(***************************************************************************)
\* The last sector of the memory.
SectorAddr == FlashSize - SectorSize

\* The first bytes of test_message[0] and test_message[1].
TestMessage == << <<70, 108, 97, 115>>, <<65, 110, 111, 116>> >>

\* The bytes programmed on the page (page 0 or 1), the first n of them.
TestData(page, n) == SubSeq(TestMessage[page + 1], 1, n)

PageAddr(page) == SectorAddr + page * PageSize

TestCallOf(f, a, d, n) == [op |-> f, address |-> a, data |-> d, nbytes |-> n]
TestInitCall == TestCallOf("rvlib_spiflash_init", 0, <<>>, 0)
TestErase(a) == TestCallOf("rvlib_spiflash_sector_erase", a, <<>>, 0)
TestProgram(a, d) == TestCallOf("rvlib_spiflash_page_program", a, d, Len(d))
TestRead(a, n) == TestCallOf("rvlib_spiflash_read_mem", a, <<>>, n)

\* spiflash_writetest: init, erase the sector, read it back, program the
\* first two pages, read them back.
WriteTestCalls ==
    <<TestInitCall, TestErase(SectorAddr), TestRead(SectorAddr, TestWindow),
      TestProgram(PageAddr(0), TestData(0, TestLen)),
      TestProgram(PageAddr(1), TestData(1, TestLen)),
      TestRead(PageAddr(0), TestWindow), TestRead(PageAddr(1), TestWindow)>>

\* Erase the sector of a twice, then read back the start of both pages.
EraseTwiceCalls(a) ==
    <<TestInitCall, TestErase(a), TestErase(a),
      TestRead(PageAddr(0), TestWindow), TestRead(PageAddr(1), TestWindow)>>

\* Erase, program n bytes at a, read n bytes at a.
RoundTripCalls(a, n) ==
    <<TestInitCall, TestErase(a), TestProgram(a, TestData(0, n)), TestRead(a, n)>>

TestCalls(t) ==
    IF t.name = "writetest" THEN WriteTestCalls
    ELSE IF t.name = "erase_twice" THEN EraseTwiceCalls(t.addr)
    ELSE IF t.name = "round_trip" THEN RoundTripCalls(t.addr, t.len)
    ELSE <<>>

\* Addresses of the program-and-read-back sequence: a page start, the last
\* bytes of a page, and the same with bit 24 set.
RoundTripAddrs ==
    {PageAddr(0), PageAddr(1) - TestLen, PageAddr(1),
     PageAddr(0) + 2 ^ AddressBits}

TestOf(name, a, n) ==
    [name |-> name, addr |-> a, len |-> n, pos |-> 1, results |-> <<>>]

Tests ==
    {TestOf("writetest", SectorAddr, TestLen)}
    \cup {TestOf("erase_twice", a, 0) : a \in {PageAddr(0), PageAddr(1)}}
    \cup {TestOf("round_trip", a, n) : a \in RoundTripAddrs, n \in 0 .. TestLen}

\* The program calls of the test sequences.
TestPrograms ==
    { c \in UNION { { TestCalls(t)[i] : i \in 1 .. Len(TestCalls(t)) } : t \in Tests } :
        c.op = "rvlib_spiflash_page_program" }

\* Manufacturer and device identification bytes of the device.
DeviceId == <<32, 186, 23>>

ReadyFlag == 2 ^ SPIFLASH_BIT_FLAGS_READY

NoOperation == [kind |-> "none", addr |-> 0, data |-> <<>>, failed |-> FALSE]

\* The address the device takes from the three bytes after the command.
WireAddress(c) == c[2] * 65536 + c[3] * 256 + c[4]

\* The cell the i-th byte (from 0) of a program or read at address a
\* falls on; a program wraps inside its page.
ProgramCell(a, i) == (a \div PageSize) * PageSize + ((a + i) % PageSize)
ReadCell(a, i) == (a + i) % (2 ^ AddressBits)

\* The cells of the address space the model keeps: those a program of the
\* model can change.  Every other cell stays erased.
ProgramCells(a, d) ==
    { ProgramCell(a % (2 ^ AddressBits), i - 1) : i \in 1 .. Len(d) }

MemCells ==
    UNION { ProgramCells(a, d) : a \in AddrInputs, d \in Payloads }
    \cup UNION { ProgramCells(c.address, c.data) : c \in TestPrograms }

MemAt(mem, a) == IF a \in DOMAIN mem THEN mem[a] ELSE 255

Programmed(mem, a, d) ==
    [c \in DOMAIN mem |->
        LET hits == { i \in 1 .. Len(d) : ProgramCell(a, i - 1) = c }
        IN  IF hits = {} THEN mem[c]
            ELSE ByteAnd(mem[c], d[CHOOSE i \in hits : \A j \in hits : j <= i])]

Erased(mem, a) ==
    [c \in DOMAIN mem |->
        IF c \div SectorSize = a \div SectorSize THEN 255 ELSE mem[c]]

ErrorBitOf(kind) ==
    IF kind = "program" THEN SPIFLASH_BIT_FLAGS_PROGRAM_ERROR
    ELSE SPIFLASH_BIT_FLAGS_ERASE_ERROR

WithBit(v, k) == IF BitSet(v, k) THEN v ELSE v + 2 ^ k
WithoutBit(v, k) == IF BitSet(v, k) THEN v - 2 ^ k ELSE v

\* The byte the device shifts out on a dummy clock.
DevOutput(d) ==
    IF d.rx = <<>> THEN 255
    ELSE IF d.rx[1] = SPIFLASH_CMD_READ_FLAGS THEN d.flags
    ELSE IF d.rx[1] = SPIFLASH_CMD_READ_ID
        THEN DeviceId[IF d.nout < 3 THEN d.nout + 1 ELSE 3]
    ELSE IF d.rx[1] = SPIFLASH_CMD_READ /\ Len(d.rx) >= 4
        THEN MemAt(d.mem, ReadCell(WireAddress(d.rx), d.nout))
    ELSE 255

\* The device when chip-select is released: it executes the command it
\* received.  While an operation is in progress it only answers flag
\* queries.
DevDeselect(d) ==
    LET c == d.rx
        closed == [d EXCEPT !.rx = <<>>, !.nout = 0]
    IN  IF c = <<>> \/ ~BitSet(d.flags, SPIFLASH_BIT_FLAGS_READY) THEN closed
        ELSE IF c[1] = SPIFLASH_CMD_CLEAR_FLAGS
            THEN [closed EXCEPT !.flags =
                    WithoutBit(WithoutBit(@, SPIFLASH_BIT_FLAGS_PROGRAM_ERROR),
                               SPIFLASH_BIT_FLAGS_ERASE_ERROR)]
        ELSE IF c[1] = SPIFLASH_CMD_WRITE_ENABLE
            THEN [closed EXCEPT !.wel = TRUE]
        ELSE IF c[1] = SPIFLASH_CMD_PAGE_PROGRAM /\ Len(c) >= 4 /\ d.wel
            THEN [closed EXCEPT !.wel = FALSE, !.flags = @ - ReadyFlag,
                    !.pend = [kind |-> "program", addr |-> WireAddress(c),
                              data |-> SubSeq(c, 5, Len(c)), failed |-> FALSE]]
        ELSE IF c[1] = SPIFLASH_CMD_SECTOR_ERASE /\ Len(c) >= 4 /\ d.wel
            THEN [closed EXCEPT !.wel = FALSE, !.flags = @ - ReadyFlag,
                    !.pend = [kind |-> "erase", addr |-> WireAddress(c),
                              data |-> <<>>, failed |-> FALSE]]
        ELSE closed

\* The log shows a closed transaction that began with the command of an
\* operation of this kind.
Sent(l, kind) ==
    LET cmd == IF kind = "program" THEN SPIFLASH_CMD_PAGE_PROGRAM
               ELSE SPIFLASH_CMD_SECTOR_ERASE
        ends == { k \in 1 .. Len(l) :
                    l[k].reg = RVLIB_SPIFLASH_REG_SLAVESEL /\ l[k].write }
    IN  \E k \in 1 .. Len(l) :
            /\ l[k] = [reg |-> RVLIB_SPIFLASH_REG_DATA, write |-> TRUE,
                       val |-> cmd]
            /\ k = 1 \/ k - 1 \in ends
            /\ \E j \in ends : j > k

\* The device raises the error flag of the operation in progress.
DevFault ==
    /\ dev.pend.kind # "none"
    /\ ~dev.pend.failed
    /\ dev' = [dev EXCEPT !.pend.failed = TRUE,
                          !.flags = WithBit(@, ErrorBitOf(dev.pend.kind))]
    /\ faulted' = (faulted \/ Sent(log, dev.pend.kind))
    /\ UNCHANGED <<callVars, pollVars, busVars, acc, log, ctrlVars>>

\* The operation in progress ends: the device reports READY, and memory
\* holds the result unless the operation failed.
DevFinish ==
    /\ dev.pend.kind # "none"
    /\ dev' = [dev EXCEPT
                !.pend = NoOperation,
                !.flags = WithBit(@, SPIFLASH_BIT_FLAGS_READY),
                !.mem = IF dev.pend.failed THEN @
                        ELSE IF dev.pend.kind = "program"
                            THEN Programmed(@, dev.pend.addr, dev.pend.data)
                        ELSE Erased(@, dev.pend.addr)]
    /\ UNCHANGED <<callVars, pollVars, busVars, traceVars, ctrlVars>>

\* The controller shifts the next queued byte: chip-select is asserted, a
\* command byte goes to the device, a dummy request brings one byte back.
CtrlShift ==
    /\ txq # <<>>
    /\ txq' = Tail(txq)
    /\ cs' = TRUE
    /\ IF Head(txq) = DUMMY_REQUEST
        THEN /\ rxq' = Append(rxq, DevOutput(dev))
             /\ dev' = [dev EXCEPT !.nout = @ + 1]
        ELSE /\ rxq' = rxq
             /\ dev' = [dev EXCEPT !.rx = Append(@, Head(txq))]
    /\ UNCHANGED <<callVars, pollVars, busVars, traceVars>>

(***************************************************************************)
(* Register accesses of the driver.                                        *)
(***************************************************************************)
RegAccess(r, w, v) == [reg |-> r, write |-> w, val |-> v]

NoAccess == RegAccess(-1, FALSE, 0)

\* rvlib_hw_read_reg(STATUS): not kept in the log, a wait loop repeats it.
ReadStatus ==
    /\ status' = StatusReg
    /\ acc' = RegAccess(RVLIB_SPIFLASH_REG_STATUS, FALSE, StatusReg)
    /\ log' = log
    /\ faulted' = faulted

\* rvlib_hw_write_reg(DATA, v)
WriteData(v) ==
    /\ txq' = Append(txq, v)
    /\ acc' = RegAccess(RVLIB_SPIFLASH_REG_DATA, TRUE, v)
    /\ log' = Append(log, RegAccess(RVLIB_SPIFLASH_REG_DATA, TRUE, v))
    /\ faulted' = faulted

\* The bytes the controller holds or owes the driver: those received and
\* those the queued dummy requests will bring.
Outstanding ==
    Len(rxq) + Cardinality({ k \in 1 .. Len(txq) : txq[k] = DUMMY_REQUEST })

\* The value rvlib_hw_read_reg(DATA) returns: the oldest received byte.
DataReg == IF rxq # <<>> THEN Head(rxq) ELSE 0

\* rvlib_hw_read_reg(DATA)
ReadData ==
    /\ rxq' = IF rxq # <<>> THEN Tail(rxq) ELSE rxq
    /\ acc' = RegAccess(RVLIB_SPIFLASH_REG_DATA, FALSE, DataReg)
    /\ log' = Append(log, RegAccess(RVLIB_SPIFLASH_REG_DATA, FALSE, DataReg))
    /\ faulted' = faulted

\* rvlib_hw_write_reg(SLAVESEL, v)
WriteSlaveSel(v) ==
    /\ cs' = (v # 0)
    /\ dev' = IF v = 0 THEN DevDeselect(dev) ELSE dev
    /\ acc' = RegAccess(RVLIB_SPIFLASH_REG_SLAVESEL, TRUE, v)
    /\ log' = Append(log, RegAccess(RVLIB_SPIFLASH_REG_SLAVESEL, TRUE, v))
    /\ faulted' = faulted

(***************************************************************************)
(* The command functions, each the list of its calls of the bus            *)
(* primitives.                                                             *)
(***************************************************************************)
Call(f, a) == [call |-> f, arg |-> a]
SendByte(b) == Call("spi_send_byte", ToUint8(b))
ReadBytes(n) == Call("spi_read_bytes", n)
EndTransaction == Call("spi_end_transaction", 0)

\* Mutant: the command is not closed by spi_end_transaction.
spi_command_simple_unclosed(cmd) == <<SendByte(cmd)>>

spi_command_simple(cmd) == <<SendByte(cmd), EndTransaction>>

spi_command_read(cmd, n) == <<SendByte(cmd), ReadBytes(n), EndTransaction>>

\* Mutant: the read sends the address least significant byte first.
spi_command_addr_read_lsb_first(cmd, addr, n) ==
    <<SendByte(cmd), SendByte(addr), SendByte(ShiftRight(addr, 8)),
      SendByte(ShiftRight(addr, 16)), ReadBytes(n), EndTransaction>>

spi_command_addr_read(cmd, addr, n) ==
    <<SendByte(cmd), SendByte(ShiftRight(addr, 16)), SendByte(ShiftRight(addr, 8)),
      SendByte(addr), ReadBytes(n), EndTransaction>>

\* Mutant: the address goes out least significant byte first.
spi_command_addr_write_lsb_first(cmd, addr, d) ==
    <<SendByte(cmd), SendByte(addr), SendByte(ShiftRight(addr, 8)),
      SendByte(ShiftRight(addr, 16))>>
    \o [i \in 1 .. Len(d) |-> SendByte(d[i])]
    \o <<EndTransaction>>

spi_command_addr_write(cmd, addr, d) ==
    <<SendByte(cmd), SendByte(ShiftRight(addr, 16)), SendByte(ShiftRight(addr, 8)),
      SendByte(addr)>>
    \o [i \in 1 .. Len(d) |-> SendByte(d[i])]
    \o <<EndTransaction>>

(***************************************************************************)
(* Control flow inside a command function.                                 *)
(***************************************************************************)
IsCall(calls, i, f) == i >= 1 /\ i <= Len(calls) /\ calls[i].call = f

\* Control enters the i-th call of the command function, or the function
\* returns.  spi_read_bytes starts with p = 0 and ncmd = nbytes.
EnterPrimitive(calls, i) ==
    /\ ip' = i
    /\ pc' = IF i > Len(calls) THEN "ret"
             ELSE IF calls[i].call = "spi_read_bytes" THEN "loop"
             ELSE "wait"
    /\ p' = 0
    /\ ncmd' = IF IsCall(calls, i, "spi_read_bytes") THEN calls[i].arg ELSE 0
    /\ entry_rx' = IF IsCall(calls, i, "spi_read_bytes") THEN Outstanding ELSE 0

\* The length of the buffer a command function reads into.
ReadLength(calls) ==
    LET r == { i \in 1 .. Len(calls) : calls[i].call = "spi_read_bytes" }
    IN  IF r = {} THEN 0 ELSE calls[CHOOSE i \in r : TRUE].arg

\* A command function is called: the buffer it fills holds nothing yet.
Begin(calls) ==
    /\ prog' = calls
    /\ EnterPrimitive(calls, 1)
    /\ buf' = [i \in 1 .. ReadLength(calls) |-> -1]

\* The call in progress returns to the command function.
Advance ==
    /\ prog' = prog
    /\ EnterPrimitive(prog, ip + 1)

InPrimitive(f, at) == IsCall(prog, ip, f) /\ pc = at

(***************************************************************************)
(* The bus primitives, one register access per step.                       *)
(***************************************************************************)
\* Mutant: spi_send_byte does not wait for CMD_READY.
SendByteNoWait(st) == TRUE

\* spi_send_byte leaves its wait loop: (status & (1 << CMDRDY)) != 0.
SendByteReady(st) == BitSet(st, RVLIB_SPIFLASH_BIT_STATUS_CMDRDY)

\* spi_read_bytes: while (p < nbytes).
ReadBytesContinue(filled, n) == filled < n

\* Mutant: requests are not counted down against nbytes.
ReadBytesMayRequestUncounted(left, st) ==
    BitSet(st, RVLIB_SPIFLASH_BIT_STATUS_CMDRDY)

\* spi_read_bytes requests a byte: ncmd > 0 and CMD_READY.
ReadBytesMayRequest(left, st) ==
    left > 0 /\ BitSet(st, RVLIB_SPIFLASH_BIT_STATUS_CMDRDY)

\* Mutant: a byte is taken whether or not READ_READY is set.
ReadBytesCaptureAlways(st) == TRUE

\* spi_read_bytes takes a byte: READ_READY.
ReadBytesMayCapture(st) == BitSet(st, RVLIB_SPIFLASH_BIT_STATUS_READRDY)

\* Mutant: the wait for BUSY to clear is missing.
EndTransactionNoWait(st) == TRUE

\* spi_end_transaction leaves its wait loop: (status & (1 << BUSY)) == 0.
EndTransactionIdle(st) == ~BitSet(st, RVLIB_SPIFLASH_BIT_STATUS_BUSY)

\* spi_send_byte: the wait for CMD_READY.
SendByteWait ==
    /\ InPrimitive("spi_send_byte", "wait")
    /\ ReadStatus
    /\ pc' = IF SendByteReady(StatusReg) THEN "write" ELSE "wait"
    /\ UNCHANGED <<callVars, pollVars, prog, ip, p, ncmd, entry_rx, buf, ctrlVars, dev>>

\* spi_send_byte: the write of the byte to DATA.
SendByteWrite ==
    /\ InPrimitive("spi_send_byte", "write")
    /\ WriteData(prog[ip].arg)
    /\ Advance
    /\ UNCHANGED <<callVars, pollVars, status, buf, rxq, cs, dev>>

\* spi_read_bytes: the loop condition holds and STATUS is read once; the
\* snapshot decides what the iteration does.
ReadBytesStatus ==
    /\ InPrimitive("spi_read_bytes", "loop")
    /\ ReadBytesContinue(p, prog[ip].arg)
    /\ ReadStatus
    /\ pc' = IF ReadBytesMayRequest(ncmd, StatusReg) THEN "request"
             ELSE IF ReadBytesMayCapture(StatusReg) THEN "capture"
             ELSE "loop"
    /\ UNCHANGED <<callVars, pollVars, prog, ip, p, ncmd, entry_rx, buf, ctrlVars, dev>>

\* spi_read_bytes: the dummy-byte request.
ReadBytesRequest ==
    /\ InPrimitive("spi_read_bytes", "request")
    /\ WriteData(DUMMY_REQUEST)
    /\ ncmd' = ncmd - 1
    /\ pc' = IF ReadBytesMayCapture(status) THEN "capture" ELSE "loop"
    /\ UNCHANGED <<entry_rx, callVars, pollVars, prog, ip, status, p, buf, rxq, cs, dev>>

\* spi_read_bytes: one received byte goes to buf[p].
ReadBytesCapture ==
    /\ InPrimitive("spi_read_bytes", "capture")
    /\ ReadData
    /\ buf' = [buf EXCEPT ![p + 1] = ToUint8(DataReg)]
    /\ p' = p + 1
    /\ pc' = "loop"
    /\ UNCHANGED <<callVars, pollVars, prog, ip, status, ncmd, entry_rx, txq, cs, dev>>

\* spi_read_bytes: the loop condition fails; no register is touched.
ReadBytesExit ==
    /\ InPrimitive("spi_read_bytes", "loop")
    /\ ~ReadBytesContinue(p, prog[ip].arg)
    /\ Advance
    /\ UNCHANGED <<callVars, pollVars, status, buf, traceVars, ctrlVars, dev>>

\* spi_end_transaction: the wait for BUSY to clear.
EndTransactionWait ==
    /\ InPrimitive("spi_end_transaction", "wait")
    /\ ReadStatus
    /\ pc' = IF EndTransactionIdle(StatusReg) THEN "deselect" ELSE "wait"
    /\ UNCHANGED <<callVars, pollVars, prog, ip, p, ncmd, entry_rx, buf, ctrlVars, dev>>

\* spi_end_transaction: the write of 0 to SLAVESEL.
EndTransactionDeselect ==
    /\ InPrimitive("spi_end_transaction", "deselect")
    /\ WriteSlaveSel(0)
    /\ Advance
    /\ UNCHANGED <<callVars, pollVars, status, buf, txq, rxq>>

(***************************************************************************)
(* Calls and returns of the public operations.                             *)
(***************************************************************************)
NoPoll ==
    /\ timeout_us' = 0
    /\ end_time' = 0
    /\ time_now' = 0
    /\ npolls' = 0
    /\ cycle_counter' = 0

\* A public operation returns: step "done" shows its result and its
\* traffic to the caller.
Return ==
    /\ step' = "done"
    /\ prog' = <<>>
    /\ ip' = 0
    /\ pc' = "idle"
    /\ p' = 0
    /\ ncmd' = 0
    /\ entry_rx' = 0
    /\ status' = 0
    /\ flags' = 0
    /\ NoPoll

\* The caller takes the result; the next call may follow.
TakeResult ==
    /\ op # "idle"
    /\ step = "done"
    /\ op' = "idle"
    /\ step' = "none"
    /\ address' = 0
    /\ data' = <<>>
    /\ nbytes' = 0
    /\ buf' = <<>>
    /\ log' = <<>>
    /\ faulted' = FALSE
    /\ ret' = 0
    /\ devid' = [manufacturer_id |-> 0, device_id |-> 0]
    /\ afterFailed' = IF op \in {"rvlib_spiflash_page_program",
                                  "rvlib_spiflash_sector_erase"}
                      THEN ret = RVLIB_SPIFLASH_ERR_FAILED
                      ELSE afterFailed
    /\ UNCHANGED <<inited, pollVars, prog, ip, pc, status, p, ncmd, entry_rx,
                   acc, ctrlVars, dev>>

Finish ==
    /\ TakeResult
    /\ test' = test
    /\ UNCHANGED appVars

\* A public operation is called with its arguments.
Enter(f, a, d, n) ==
    /\ op = "idle"
    /\ op' = f
    /\ address' = a
    /\ data' = d
    /\ nbytes' = n
    /\ log' = <<>>
    /\ faulted' = FALSE
    /\ acc' = acc
    /\ afterFailed' = afterFailed
    /\ test' = test
    /\ UNCHANGED appVars

\* A command function has returned to the public operation at step s.
At(f, s) == op = f /\ step = s /\ pc = "ret"

(***************************************************************************)
(* spiflash_poll_completion                                                *)
(***************************************************************************)
\* The counter values get_cycle_counter may return in the loop: not before
\* the previous one, and at most one tick past the deadline.
NextTimes ==
    LET ticks == TimeoutTicks(timeout_us)
        start == Remaining(end_time, ticks)
        elapsed(t) == Remaining(t, start)
    IN  { t \in 0 .. CounterModulus - 1 :
            elapsed(time_now) <= elapsed(t) /\ elapsed(t) <= ticks + 1 }

\* The flag query the loop makes.
PollQuery == spi_command_read(SPIFLASH_CMD_READ_FLAGS, 1)

\* Mutant: the loop tests the program-error bit for READY.
PollBreakOnFlagsWrongBit(f) == BitSet(f, SPIFLASH_BIT_FLAGS_PROGRAM_ERROR)

\* Mutant: the comparison with the deadline is inverted.
PollBreakOnTimeInverted(endt, nowt) == ~DeadlineExpired(endt, nowt)

\* Mutant: READY does not end the loop; only the deadline does.
PollBreakOnFlagsNever(f) == FALSE

\* The loop ends on the flag byte alone.
PollBreakOnFlags(f) == BitSet(f, SPIFLASH_BIT_FLAGS_READY)

\* Mutant: the loop has no deadline.
PollBreakOnTimeNever(endt, nowt) == FALSE

\* The loop ends on the deadline.
PollBreakOnTime(endt, nowt) == DeadlineExpired(endt, nowt)

\* Entry: end_time = get_cycle_counter() + RVLIB_CPU_FREQ_MHZ * timeout_us,
\* then the first flag query.
PollEnter(t_us) ==
    /\ \E t0 \in StartTimes :
        /\ time_now' = t0
        /\ cycle_counter' = t0
        /\ end_time' = (t0 + TimeoutTicks(t_us)) % CounterModulus
    /\ timeout_us' = t_us
    /\ npolls' = 1
    /\ step' = "poll"
    /\ Begin(PollQuery)

InPoll == step = "poll" /\ pc = "ret"

\* The query returned READY: break.  The counter is not read; it may stand
\* anywhere up to one tick past the deadline.
PollReady ==
    /\ InPoll
    /\ PollBreakOnFlags(buf[1])
    /\ flags' = buf[1]
    /\ cycle_counter' \in NextTimes
    /\ pc' = "poll_ret"
    /\ UNCHANGED <<callVars, timeout_us, end_time, time_now, npolls,
                   prog, ip, status, p, ncmd, entry_rx, buf, traceVars, ctrlVars, dev>>

\* Not READY and the deadline has passed: break.
PollExpired ==
    /\ InPoll
    /\ ~PollBreakOnFlags(buf[1])
    /\ flags' = buf[1]
    /\ \E t \in NextTimes :
        /\ time_now' = t
        /\ cycle_counter' = t
        /\ PollBreakOnTime(end_time, t)
    /\ pc' = "poll_ret"
    /\ UNCHANGED <<callVars, timeout_us, end_time, npolls,
                   prog, ip, status, p, ncmd, entry_rx, buf, traceVars, ctrlVars, dev>>

\* Not READY and the deadline has not passed: query again.
PollAgain ==
    /\ InPoll
    /\ ~PollBreakOnFlags(buf[1])
    /\ npolls < MaxPolls
    /\ flags' = buf[1]
    /\ \E t \in NextTimes :
        /\ time_now' = t
        /\ cycle_counter' = t
        /\ ~PollBreakOnTime(end_time, t)
    /\ npolls' = npolls + 1
    /\ Begin(PollQuery)
    /\ UNCHANGED <<callVars, timeout_us, end_time, status, traceVars, ctrlVars, dev>>

\* spiflash_poll_completion has returned flags to the operation.
PollReturned(f) == op = f /\ step = "poll" /\ pc = "poll_ret"

(***************************************************************************)
(* rvlib_spiflash_init                                                     *)
(***************************************************************************)
CallInit ==
    /\ Enter("rvlib_spiflash_init", 0, <<>>, 0)
    /\ step' = "drain"
    /\ prog' = <<>>
    /\ ip' = 0
    /\ pc' = "drain"
    /\ UNCHANGED <<ret, inited, devid, pollVars, status, p, ncmd, entry_rx, buf, ctrlVars, dev>>

\* Mutant: the drain loop ends on an idle controller without looking at
\* READ_READY first.
InitDrainNextIdleFirst(st) ==
    IF ~BitSet(st, RVLIB_SPIFLASH_BIT_STATUS_BUSY) THEN "ret"
    ELSE IF BitSet(st, RVLIB_SPIFLASH_BIT_STATUS_READRDY) THEN "drain_read"
    ELSE "drain"

\* Mutant: the drain loop ends as soon as no byte is waiting, busy or not.
InitDrainNextIgnoresBusy(st) ==
    IF BitSet(st, RVLIB_SPIFLASH_BIT_STATUS_READRDY) THEN "drain_read"
    ELSE "ret"

\* Where the drain loop goes on the STATUS value it read.
InitDrainNext(st) ==
    IF BitSet(st, RVLIB_SPIFLASH_BIT_STATUS_READRDY) THEN "drain_read"
    ELSE IF ~BitSet(st, RVLIB_SPIFLASH_BIT_STATUS_BUSY) THEN "ret"
    ELSE "drain"

\* The drain loop reads STATUS: a received byte is to be read, or the
\* controller is idle and the loop ends, or the loop goes round.
InitDrainStatus ==
    /\ op = "rvlib_spiflash_init" /\ step = "drain" /\ pc = "drain"
    /\ ReadStatus
    /\ pc' = InitDrainNext(StatusReg)
    /\ UNCHANGED <<callVars, pollVars, prog, ip, p, ncmd, entry_rx, buf, ctrlVars, dev>>

\* The drain loop reads DATA and drops the byte.
InitDrainRead ==
    /\ op = "rvlib_spiflash_init" /\ step = "drain" /\ pc = "drain_read"
    /\ ReadData
    /\ pc' = "drain"
    /\ UNCHANGED <<callVars, pollVars, prog, ip, status, p, ncmd, entry_rx, buf, txq, cs, dev>>

InitFirstCommand ==
    /\ At("rvlib_spiflash_init", "drain")
    /\ Begin(spi_command_simple(RECOVERY_BYTE))
    /\ step' = "first"
    /\ UNCHANGED <<appVars, test, afterFailed, op, address, data, nbytes, ret, inited, devid, pollVars,
                   status, traceVars, ctrlVars, dev>>

InitSecondCommand ==
    /\ At("rvlib_spiflash_init", "first")
    /\ Begin(spi_command_simple(RECOVERY_BYTE))
    /\ step' = "second"
    /\ UNCHANGED <<appVars, test, afterFailed, op, address, data, nbytes, ret, inited, devid, pollVars,
                   status, traceVars, ctrlVars, dev>>

InitClearFlags ==
    /\ At("rvlib_spiflash_init", "second")
    /\ Begin(spi_command_simple(SPIFLASH_CMD_CLEAR_FLAGS))
    /\ step' = "clear"
    /\ UNCHANGED <<appVars, test, afterFailed, op, address, data, nbytes, ret, inited, devid, pollVars,
                   status, traceVars, ctrlVars, dev>>

\* Mutant: init waits with the program timeout.
InitTimeoutUsOfProgram == SPIFLASH_PROGRAM_TIMEOUT_US

\* The timeout init passes to spiflash_poll_completion.
InitTimeoutUs == SPIFLASH_ERASE_TIMEOUT_US

InitPoll ==
    /\ At("rvlib_spiflash_init", "clear")
    /\ PollEnter(InitTimeoutUs)
    /\ UNCHANGED <<appVars, test, afterFailed, op, address, data, nbytes, ret, inited, devid, flags,
                   status, traceVars, ctrlVars, dev>>

\* The value the poll returns is dropped: init reports nothing.
InitReturn ==
    /\ PollReturned("rvlib_spiflash_init")
    /\ Return
    /\ inited' = TRUE
    /\ UNCHANGED <<appVars, test, afterFailed, op, address, data, nbytes, ret, devid, buf, traceVars,
                   ctrlVars, dev>>

(***************************************************************************)
(* rvlib_spiflash_read_id and rvlib_spiflash_read_mem                      *)
(***************************************************************************)
CallReadId ==
    /\ inited
    /\ Enter("rvlib_spiflash_read_id", 0, <<>>, 0)
    /\ Begin(spi_command_read(SPIFLASH_CMD_READ_ID, 3))
    /\ step' = "read"
    /\ UNCHANGED <<ret, inited, devid, pollVars, status, ctrlVars, dev>>

\* Mutant: device_id is put together low byte first.
DeviceIdOfLowFirst(b) ==
    [manufacturer_id |-> b[1], device_id |-> ((b[3] * 256) % 65536) + b[2]]

\* manufacturer_id = buf[0]; device_id = ((uint16_t)buf[1] << 8) | buf[2]:
\* the low byte of the shifted value is 0, so the OR is a sum.
DeviceIdOf(b) ==
    [manufacturer_id |-> b[1], device_id |-> ((b[2] * 256) % 65536) + b[3]]

ReadIdReturn ==
    /\ At("rvlib_spiflash_read_id", "read")
    /\ devid' = DeviceIdOf(buf)
    /\ Return
    /\ UNCHANGED <<appVars, test, afterFailed, op, address, data, nbytes, ret, inited, buf, traceVars,
                   ctrlVars, dev>>

ReadMemCalled(a, n) ==
    /\ inited
    /\ Enter("rvlib_spiflash_read_mem", a, <<>>, n)
    /\ Begin(spi_command_addr_read(SPIFLASH_CMD_READ, a, n))
    /\ step' = "read"
    /\ UNCHANGED <<ret, inited, devid, pollVars, status, ctrlVars, dev>>

CallReadMem ==
    \E a \in AddrInputs, n \in 0 .. MaxRead : ReadMemCalled(a, n)

ReadMemReturn ==
    /\ At("rvlib_spiflash_read_mem", "read")
    /\ Return
    /\ UNCHANGED <<appVars, test, afterFailed, op, address, data, nbytes, ret, inited, devid, buf, traceVars,
                   ctrlVars, dev>>

(***************************************************************************)
(* rvlib_spiflash_page_program                                            *)
(***************************************************************************)
\* The flag query before anything else.
PageProgramPreflight == spi_command_read(SPIFLASH_CMD_READ_FLAGS, 1)

\* Mutant: the test of READY is inverted.
PageProgramNotReadyInverted(f) == BitSet(f, SPIFLASH_BIT_FLAGS_READY)

\* (flags & (1 << READY)) == 0: the device is still busy.
PageProgramNotReady(f) == ~BitSet(f, SPIFLASH_BIT_FLAGS_READY)

\* Mutant: the flags are not cleared before the operation; WRITE_ENABLE is
\* sent in the place of CLEAR_FLAGS.
PageProgramClearOmitted == spi_command_simple(SPIFLASH_CMD_WRITE_ENABLE)

PageProgramClear == spi_command_simple(SPIFLASH_CMD_CLEAR_FLAGS)

PageProgramEnable == spi_command_simple(SPIFLASH_CMD_WRITE_ENABLE)

\* Mutant: the payload is not passed on.
PageProgramStartNoPayload(a, d) ==
    spi_command_addr_write(SPIFLASH_CMD_PAGE_PROGRAM, a, <<>>)

PageProgramStart(a, d) ==
    spi_command_addr_write(SPIFLASH_CMD_PAGE_PROGRAM, a, d)

PageProgramTimeoutUs == SPIFLASH_PROGRAM_TIMEOUT_US

\* Mutant: the error bit is tested before READY.
PageProgramResultErrorFirst(f) ==
    IF BitSet(f, SPIFLASH_BIT_FLAGS_PROGRAM_ERROR) THEN RVLIB_SPIFLASH_ERR_FAILED
    ELSE IF ~BitSet(f, SPIFLASH_BIT_FLAGS_READY) THEN RVLIB_SPIFLASH_ERR_TIMEOUT
    ELSE 0

\* The result the flag byte of the completion poll gives.
PageProgramResult(f) ==
    IF ~BitSet(f, SPIFLASH_BIT_FLAGS_READY) THEN RVLIB_SPIFLASH_ERR_TIMEOUT
    ELSE IF BitSet(f, SPIFLASH_BIT_FLAGS_PROGRAM_ERROR) THEN RVLIB_SPIFLASH_ERR_FAILED
    ELSE 0

\* Mutant: FAILED is returned with nothing sent.
PageProgramOnFailedNothing == <<>>

\* What is sent before FAILED is returned.
PageProgramOnFailed == spi_command_simple(SPIFLASH_CMD_CLEAR_FLAGS)

PageProgramCalled(a, d) ==
    /\ inited
    /\ Enter("rvlib_spiflash_page_program", a, d, Len(d))
    /\ Begin(PageProgramPreflight)
    /\ step' = "preflight"
    /\ UNCHANGED <<ret, inited, devid, pollVars, status, ctrlVars, dev>>

CallPageProgram ==
    \E a \in AddrInputs, d \in Payloads : PageProgramCalled(a, d)

PageProgramRejected ==
    /\ At("rvlib_spiflash_page_program", "preflight")
    /\ PageProgramNotReady(buf[1])
    /\ Return
    /\ ret' = RVLIB_SPIFLASH_ERR_NOTREADY
    /\ UNCHANGED <<appVars, test, afterFailed, op, address, data, nbytes, inited, devid, buf, traceVars,
                   ctrlVars, dev>>

PageProgramClearFlags ==
    /\ At("rvlib_spiflash_page_program", "preflight")
    /\ ~PageProgramNotReady(buf[1])
    /\ flags' = buf[1]
    /\ Begin(PageProgramClear)
    /\ step' = "clear"
    /\ UNCHANGED <<appVars, test, afterFailed, op, address, data, nbytes, ret, inited, devid,
                   timeout_us, end_time, time_now, npolls, cycle_counter,
                   status, traceVars, ctrlVars, dev>>

PageProgramWriteEnable ==
    /\ At("rvlib_spiflash_page_program", "clear")
    /\ Begin(PageProgramEnable)
    /\ step' = "enable"
    /\ UNCHANGED <<appVars, test, afterFailed, op, address, data, nbytes, ret, inited, devid, pollVars,
                   status, traceVars, ctrlVars, dev>>

PageProgramCommand ==
    /\ At("rvlib_spiflash_page_program", "enable")
    /\ Begin(PageProgramStart(address, data))
    /\ step' = "command"
    /\ UNCHANGED <<appVars, test, afterFailed, op, address, data, nbytes, ret, inited, devid, pollVars,
                   status, traceVars, ctrlVars, dev>>

PageProgramPoll ==
    /\ At("rvlib_spiflash_page_program", "command")
    /\ PollEnter(PageProgramTimeoutUs)
    /\ UNCHANGED <<appVars, test, afterFailed, op, address, data, nbytes, ret, inited, devid, flags,
                   status, traceVars, ctrlVars, dev>>

\* READY with the error bit: flags are cleared before FAILED is returned.
PageProgramFailed ==
    /\ PollReturned("rvlib_spiflash_page_program")
    /\ PageProgramResult(flags) = RVLIB_SPIFLASH_ERR_FAILED
    /\ Begin(PageProgramOnFailed)
    /\ step' = "failed"
    /\ NoPoll
    /\ UNCHANGED <<appVars, test, afterFailed, op, address, data, nbytes, ret, inited, devid, flags,
                   status, traceVars, ctrlVars, dev>>

PageProgramFailedReturn ==
    /\ At("rvlib_spiflash_page_program", "failed")
    /\ Return
    /\ ret' = RVLIB_SPIFLASH_ERR_FAILED
    /\ UNCHANGED <<appVars, test, afterFailed, op, address, data, nbytes, inited, devid, buf, traceVars,
                   ctrlVars, dev>>

\* TIMEOUT or success.
PageProgramReturn ==
    /\ PollReturned("rvlib_spiflash_page_program")
    /\ PageProgramResult(flags) # RVLIB_SPIFLASH_ERR_FAILED
    /\ Return
    /\ ret' = PageProgramResult(flags)
    /\ UNCHANGED <<appVars, test, afterFailed, op, address, data, nbytes, inited, devid, buf, traceVars,
                   ctrlVars, dev>>

(***************************************************************************)
(* rvlib_spiflash_sector_erase                                            *)
(***************************************************************************)
\* The flag query before anything else.
SectorErasePreflight == spi_command_read(SPIFLASH_CMD_READ_FLAGS, 1)

\* (flags & (1 << READY)) == 0: the device is still busy.
\* Mutant: the pre-flight test is inverted.
SectorEraseNotReadyInverted(f) == BitSet(f, SPIFLASH_BIT_FLAGS_READY)

SectorEraseNotReady(f) == ~BitSet(f, SPIFLASH_BIT_FLAGS_READY)

SectorEraseClear == spi_command_simple(SPIFLASH_CMD_CLEAR_FLAGS)

SectorEraseEnable == spi_command_simple(SPIFLASH_CMD_WRITE_ENABLE)

\* The data pointer is 0 and nbytes is 0: no payload byte.
SectorEraseStart(a, d) ==
    spi_command_addr_write(SPIFLASH_CMD_SECTOR_ERASE, a, <<>>)

\* Mutant: the erase is polled with the program timeout.
SectorEraseTimeoutUsOfProgram == SPIFLASH_PROGRAM_TIMEOUT_US

SectorEraseTimeoutUs == SPIFLASH_ERASE_TIMEOUT_US

\* The result the flag byte of the completion poll gives.
SectorEraseResult(f) ==
    IF ~BitSet(f, SPIFLASH_BIT_FLAGS_READY) THEN RVLIB_SPIFLASH_ERR_TIMEOUT
    ELSE IF BitSet(f, SPIFLASH_BIT_FLAGS_ERASE_ERROR) THEN RVLIB_SPIFLASH_ERR_FAILED
    ELSE 0

\* What is sent before FAILED is returned.
SectorEraseOnFailed == spi_command_simple(SPIFLASH_CMD_CLEAR_FLAGS)

SectorEraseCalled(a) ==
    /\ inited
    /\ Enter("rvlib_spiflash_sector_erase", a, <<>>, 0)
    /\ Begin(SectorErasePreflight)
    /\ step' = "preflight"
    /\ UNCHANGED <<ret, inited, devid, pollVars, status, ctrlVars, dev>>

CallSectorErase ==
    \E a \in AddrInputs : SectorEraseCalled(a)

SectorEraseRejected ==
    /\ At("rvlib_spiflash_sector_erase", "preflight")
    /\ SectorEraseNotReady(buf[1])
    /\ Return
    /\ ret' = RVLIB_SPIFLASH_ERR_NOTREADY
    /\ UNCHANGED <<appVars, test, afterFailed, op, address, data, nbytes, inited, devid, buf, traceVars,
                   ctrlVars, dev>>

SectorEraseClearFlags ==
    /\ At("rvlib_spiflash_sector_erase", "preflight")
    /\ ~SectorEraseNotReady(buf[1])
    /\ flags' = buf[1]
    /\ Begin(SectorEraseClear)
    /\ step' = "clear"
    /\ UNCHANGED <<appVars, test, afterFailed, op, address, data, nbytes, ret, inited, devid,
                   timeout_us, end_time, time_now, npolls, cycle_counter,
                   status, traceVars, ctrlVars, dev>>

SectorEraseWriteEnable ==
    /\ At("rvlib_spiflash_sector_erase", "clear")
    /\ Begin(SectorEraseEnable)
    /\ step' = "enable"
    /\ UNCHANGED <<appVars, test, afterFailed, op, address, data, nbytes, ret, inited, devid, pollVars,
                   status, traceVars, ctrlVars, dev>>

SectorEraseCommand ==
    /\ At("rvlib_spiflash_sector_erase", "enable")
    /\ Begin(SectorEraseStart(address, data))
    /\ step' = "command"
    /\ UNCHANGED <<appVars, test, afterFailed, op, address, data, nbytes, ret, inited, devid, pollVars,
                   status, traceVars, ctrlVars, dev>>

SectorErasePoll ==
    /\ At("rvlib_spiflash_sector_erase", "command")
    /\ PollEnter(SectorEraseTimeoutUs)
    /\ UNCHANGED <<appVars, test, afterFailed, op, address, data, nbytes, ret, inited, devid, flags,
                   status, traceVars, ctrlVars, dev>>

\* READY with the error bit: flags are cleared before FAILED is returned.
SectorEraseFailed ==
    /\ PollReturned("rvlib_spiflash_sector_erase")
    /\ SectorEraseResult(flags) = RVLIB_SPIFLASH_ERR_FAILED
    /\ Begin(SectorEraseOnFailed)
    /\ step' = "failed"
    /\ NoPoll
    /\ UNCHANGED <<appVars, test, afterFailed, op, address, data, nbytes, ret, inited, devid, flags,
                   status, traceVars, ctrlVars, dev>>

SectorEraseFailedReturn ==
    /\ At("rvlib_spiflash_sector_erase", "failed")
    /\ Return
    /\ ret' = RVLIB_SPIFLASH_ERR_FAILED
    /\ UNCHANGED <<appVars, test, afterFailed, op, address, data, nbytes, inited, devid, buf, traceVars,
                   ctrlVars, dev>>

\* TIMEOUT or success.
SectorEraseReturn ==
    /\ PollReturned("rvlib_spiflash_sector_erase")
    /\ SectorEraseResult(flags) # RVLIB_SPIFLASH_ERR_FAILED
    /\ Return
    /\ ret' = SectorEraseResult(flags)
    /\ UNCHANGED <<appVars, test, afterFailed, op, address, data, nbytes, inited, devid, buf, traceVars,
                   ctrlVars, dev>>

(***************************************************************************)
(* The specification.                                                      *)
(***************************************************************************)
PowerUp ==
    /\ op = "idle"
    /\ step = "none"
    /\ address = 0
    /\ data = <<>>
    /\ nbytes = 0
    /\ ret = 0
    /\ inited = FALSE
    /\ afterFailed = FALSE
    /\ devid = [manufacturer_id |-> 0, device_id |-> 0]
    /\ flags = 0
    /\ timeout_us = 0
    /\ end_time = 0
    /\ time_now = 0
    /\ npolls = 0
    /\ cycle_counter = 0
    /\ prog = <<>>
    /\ ip = 0
    /\ pc = "idle"
    /\ status = 0
    /\ p = 0
    /\ ncmd = 0
    /\ entry_rx = 0
    /\ buf = <<>>
    /\ acc = NoAccess
    /\ log = <<>>
    /\ faulted = FALSE
    /\ txq \in StaleRequests
    /\ rxq \in StaleQueues
    /\ cs = FALSE
    /\ dev = [flags |-> ReadyFlag, wel |-> FALSE, rx |-> <<>>, nout |-> 0,
              pend |-> NoOperation, mem |-> [c \in MemCells |-> 255]]

\* Nothing of bootmon's command line runs.
ParseIdle == pcmd = <<>> /\ parsed = <<>>

\* sizeof(cmdbuf) in the model (80 in command_loop).
CmdBufLen == 3

\* read_command has not been called: the static buffer holds zeros.
ReadIdle ==
    /\ cmdbuf = [k \in 0 .. CmdBufLen |-> 0]
    /\ pos = 0
    /\ recv_c = -1
    /\ cmd_echo = 1
    /\ echoed = <<>>
    /\ reading = "idle"
    /\ nrecv = 0
    /\ written = {}

\* UINT64_MAX as a compare value: the model's counter stays below 2^31, and
\* the largest integer of the checker stands for a value it never reaches.
UINT64_MAX == 2147483647

\* test_interrupt at reset, but for mie.
IrqReset ==
    /\ mstatus = 0
    /\ counter = 0
    /\ timecmp = UINT64_MAX
    /\ timer_count_interrupts = 0
    /\ timer_next_interrupt = 0
    /\ test_state = 0
    /\ timer_i = 0
    /\ main_pc = "main"
    /\ exit_status = -1
    /\ traps = <<>>
    /\ untimely = FALSE

\* test_interrupt does not run.
IrqIdle == IrqReset /\ mie = 0

AppIdle == ParseIdle /\ ReadIdle /\ IrqIdle

Init == PowerUp /\ test = NoTest /\ AppIdle

Next ==
    \/ CallInit \/ InitDrainStatus \/ InitDrainRead \/ InitFirstCommand
    \/ InitSecondCommand \/ InitClearFlags \/ InitPoll \/ InitReturn
    \/ CallReadId \/ ReadIdReturn \/ CallReadMem \/ ReadMemReturn
    \/ CallPageProgram \/ PageProgramRejected \/ PageProgramClearFlags
    \/ PageProgramWriteEnable \/ PageProgramCommand \/ PageProgramPoll
    \/ PageProgramFailed \/ PageProgramFailedReturn \/ PageProgramReturn
    \/ CallSectorErase \/ SectorEraseRejected \/ SectorEraseClearFlags
    \/ SectorEraseWriteEnable \/ SectorEraseCommand \/ SectorErasePoll
    \/ SectorEraseFailed \/ SectorEraseFailedReturn \/ SectorEraseReturn
    \/ PollReady \/ PollExpired \/ PollAgain
    \/ SendByteWait \/ SendByteWrite
    \/ ReadBytesStatus \/ ReadBytesRequest \/ ReadBytesCapture \/ ReadBytesExit
    \/ EndTransactionWait \/ EndTransactionDeselect
    \/ Finish
    \/ CtrlShift \/ DevFault \/ DevFinish

Spec == Init /\ [][Next]_vars

(***************************************************************************)
(* The caller runs a test sequence against a device that completes every   *)
(* operation without error and within its timeout.                         *)
(***************************************************************************)
TestRunning == test.name # "none" /\ test.pos <= Len(TestCalls(test))
TestCall == TestCalls(test)[test.pos]
TestNextIs(f) == TestRunning /\ TestCall.op = f

TestCallInit ==
    /\ TestNextIs("rvlib_spiflash_init")
    /\ CallInit

TestCallSectorErase ==
    /\ TestNextIs("rvlib_spiflash_sector_erase")
    /\ SectorEraseCalled(TestCall.address)

TestCallPageProgram ==
    /\ TestNextIs("rvlib_spiflash_page_program")
    /\ PageProgramCalled(TestCall.address, TestCall.data)

TestCallReadMem ==
    /\ TestNextIs("rvlib_spiflash_read_mem")
    /\ ReadMemCalled(TestCall.address, TestCall.nbytes)

\* The test keeps the status the call returned and the buffer it filled.
TestFinish ==
    /\ TestRunning
    /\ TakeResult
    /\ test' = [test EXCEPT
                !.pos = @ + 1,
                !.results = Append(@, [ret |-> ret,
                                       buf |-> IF op = "rvlib_spiflash_read_mem"
                                               THEN buf ELSE <<>>])]
    /\ UNCHANGED appVars

TestInit == PowerUp /\ test \in Tests /\ AppIdle

TestNext ==
    \/ TestCallInit \/ TestCallSectorErase \/ TestCallPageProgram
    \/ TestCallReadMem \/ TestFinish
    \/ InitDrainStatus \/ InitDrainRead \/ InitFirstCommand
    \/ InitSecondCommand \/ InitClearFlags \/ InitPoll \/ InitReturn
    \/ ReadMemReturn
    \/ PageProgramClearFlags \/ PageProgramWriteEnable \/ PageProgramCommand
    \/ PageProgramPoll \/ PageProgramReturn
    \/ SectorEraseClearFlags \/ SectorEraseWriteEnable \/ SectorEraseCommand
    \/ SectorErasePoll \/ SectorEraseReturn
    \/ PollReady \/ PollAgain
    \/ SendByteWait \/ SendByteWrite
    \/ ReadBytesStatus \/ ReadBytesRequest \/ ReadBytesCapture \/ ReadBytesExit
    \/ EndTransactionWait \/ EndTransactionDeselect
    \/ CtrlShift \/ DevFinish

TestSpec == TestInit /\ [][TestNext]_vars

\* The steps of the driver: it keeps executing while a call is in progress.
Driver ==
    \/ InitDrainStatus \/ InitDrainRead \/ InitFirstCommand
    \/ InitSecondCommand \/ InitClearFlags \/ InitPoll \/ InitReturn
    \/ ReadIdReturn \/ ReadMemReturn
    \/ PageProgramRejected \/ PageProgramClearFlags
    \/ PageProgramWriteEnable \/ PageProgramCommand \/ PageProgramPoll
    \/ PageProgramFailed \/ PageProgramFailedReturn \/ PageProgramReturn
    \/ SectorEraseRejected \/ SectorEraseClearFlags
    \/ SectorEraseWriteEnable \/ SectorEraseCommand \/ SectorErasePoll
    \/ SectorEraseFailed \/ SectorEraseFailedReturn \/ SectorEraseReturn
    \/ PollReady \/ PollExpired \/ PollAgain
    \/ SendByteWait \/ SendByteWrite
    \/ ReadBytesStatus \/ ReadBytesRequest \/ ReadBytesCapture \/ ReadBytesExit
    \/ EndTransactionWait \/ EndTransactionDeselect

\* The driver runs, the controller shifts every queued byte, and the cycle
\* counter keeps advancing: a poll loop that goes on reads a counter value
\* past its deadline at some time.  The device is free never to finish.
FairSpec ==
    /\ Spec
    /\ WF_vars(Driver)
    /\ WF_vars(CtrlShift)
    /\ SF_vars(PollExpired)

(***************************************************************************)
(* Reading the log of register accesses.                                   *)
(***************************************************************************)
DataWrite(v) == RegAccess(RVLIB_SPIFLASH_REG_DATA, TRUE, v)
DataRead(v) == RegAccess(RVLIB_SPIFLASH_REG_DATA, FALSE, v)
Deselect == RegAccess(RVLIB_SPIFLASH_REG_SLAVESEL, TRUE, 0)

IsDataWrite(e) == e.reg = RVLIB_SPIFLASH_REG_DATA /\ e.write
IsDataRead(e) == e.reg = RVLIB_SPIFLASH_REG_DATA /\ ~e.write
IsSlaveSelWrite(e) == e.reg = RVLIB_SPIFLASH_REG_SLAVESEL /\ e.write

\* The log cut after every SLAVESEL write: one piece per transaction, and
\* a last piece for a transaction still open.
RECURSIVE SplitLog(_)
SplitLog(l) ==
    IF l = <<>> THEN <<>>
    ELSE LET ends == { i \in 1 .. Len(l) : IsSlaveSelWrite(l[i]) }
         IN  IF ends = {} THEN <<l>>
             ELSE LET k == CHOOSE i \in ends : \A j \in ends : i <= j
                  IN  <<SubSeq(l, 1, k)>> \o SplitLog(SubSeq(l, k + 1, Len(l)))

\* The accesses since the last SLAVESEL write.
OpenPart(l) ==
    LET ends == { i \in 1 .. Len(l) : IsSlaveSelWrite(l[i]) }
    IN  IF ends = {} THEN l
        ELSE SubSeq(l, (CHOOSE i \in ends : \A j \in ends : j <= i) + 1, Len(l))

Count(l, Test(_)) == Cardinality({ i \in 1 .. Len(l) : Test(l[i]) })

\* The value of the last DATA read of the log.
LastDataRead(l) ==
    LET reads == { i \in 1 .. Len(l) : IsDataRead(l[i]) }
    IN  l[CHOOSE i \in reads : \A j \in reads : j <= i].val

\* A READ_FLAGS transaction that read the byte f; a one-byte transaction.
FlagQuery(f) ==
    <<DataWrite(SPIFLASH_CMD_READ_FLAGS), DataWrite(DUMMY_REQUEST),
      DataRead(f), Deselect>>
IsFlagQuery(t) == Len(t) = 4 /\ t = FlagQuery(t[3].val)
FlagsOf(t) == t[3].val
SimpleCommand(c) == <<DataWrite(c), Deselect>>

\* The command transaction: command byte, address bytes from the most
\* significant, payload in index order.
AddressedWrite(c, a, d) ==
    <<DataWrite(c), DataWrite((a \div 65536) % 256),
      DataWrite((a \div 256) % 256), DataWrite(a % 256)>>
    \o [i \in 1 .. Len(d) |-> DataWrite(d[i])]
    \o <<Deselect>>

IsReady(f) == (f \div 128) % 2 = 1
HasProgramError(f) == (f \div 16) % 2 = 1
HasEraseError(f) == (f \div 32) % 2 = 1

ProgramOrErase ==
    {"rvlib_spiflash_page_program", "rvlib_spiflash_sector_erase"}

Returned(f) == op = f /\ step = "done"

\* The transactions of a program or erase call that passed the pre-flight
\* query: query, CLEAR_FLAGS, WRITE_ENABLE, the command transaction, one or
\* more queries, and after them a CLEAR_FLAGS only when FAILED is returned.
WriteSequence(t, c, a, d, r) ==
    /\ Len(t) >= 5
    /\ IsFlagQuery(t[1]) /\ IsReady(FlagsOf(t[1]))
    /\ t[2] = SimpleCommand(SPIFLASH_CMD_CLEAR_FLAGS)
    /\ t[3] = SimpleCommand(SPIFLASH_CMD_WRITE_ENABLE)
    /\ t[4] = AddressedWrite(c, a, d)
    /\ IsFlagQuery(t[5])
    /\ \A i \in 5 .. Len(t) :
        \/ IsFlagQuery(t[i])
        \/ /\ i = Len(t)
           /\ r = RVLIB_SPIFLASH_ERR_FAILED
           /\ t[i] = SimpleCommand(SPIFLASH_CMD_CLEAR_FLAGS)

(***************************************************************************)
(* C1: a page_program call whose pre-flight query sees READY issues, each  *)
(* closed by a chip-select deassert: READ_FLAGS with one byte read,        *)
(* CLEAR_FLAGS, WRITE_ENABLE, one PAGE_PROGRAM transaction with the three  *)
(* address bytes and the payload in index order, then one or more          *)
(* READ_FLAGS polls; WRITE_ENABLE and PAGE_PROGRAM are sent once.          *)
(***************************************************************************)
C1_PageProgramOrder ==
    (Returned("rvlib_spiflash_page_program") /\ ret # RVLIB_SPIFLASH_ERR_NOTREADY)
    => LET t == SplitLog(log)
       IN  /\ WriteSequence(t, SPIFLASH_CMD_PAGE_PROGRAM, address, data, ret)
           /\ Cardinality({ i \in 1 .. Len(t) :
                  t[i][1] = DataWrite(SPIFLASH_CMD_WRITE_ENABLE) }) = 1
           /\ Cardinality({ i \in 1 .. Len(t) :
                  t[i][1] = DataWrite(SPIFLASH_CMD_PAGE_PROGRAM) }) = 1

C1_Witness ==
    /\ Returned("rvlib_spiflash_page_program")
    /\ ret = 0
    /\ Len(data) = 2
    /\ Len(SplitLog(log)) >= 6

(***************************************************************************)
(* C2: a page_program or sector_erase call whose first flag byte has READY *)
(* clear returns NOTREADY (-3) having written only the READ_FLAGS byte and *)
(* one dummy request to DATA; during it nothing but the device's own       *)
(* progress changes the device's memory, pending operation or write-enable *)
(* latch.                                                                  *)
(***************************************************************************)
C2_RejectedTraffic ==
    \A f \in ProgramOrErase :
        /\ (Returned(f) /\ ret = RVLIB_SPIFLASH_ERR_NOTREADY)
            => /\ Len(log) = 4
               /\ log = FlagQuery(log[3].val)
               /\ ~IsReady(log[3].val)
        /\ (Returned(f) /\ Len(log) >= 3 /\ IsDataRead(log[3])
                /\ ~IsReady(log[3].val))
            => ret = -3

C2_DeviceUntouched ==
    (op \in ProgramOrErase /\ step = "preflight")
    => \/ <<dev.mem, dev.pend, dev.wel, dev.flags>>'
            = <<dev.mem, dev.pend, dev.wel, dev.flags>>
       \/ DevFault
       \/ DevFinish

C2_NotReady == []C2_RejectedTraffic /\ [][C2_DeviceUntouched]_vars

C2_Witness ==
    /\ Returned("rvlib_spiflash_sector_erase")
    /\ ret = RVLIB_SPIFLASH_ERR_NOTREADY
    /\ dev.pend.kind = "program"
    /\ dev.pend.data # <<>>

(***************************************************************************)
(* C3: the result of page_program (of sector_erase, with ERASE_ERROR for   *)
(* PROGRAM_ERROR) is decided by the pre-flight byte and the last byte of   *)
(* the completion poll: NOT_READY if the first has READY clear, else       *)
(* TIMEOUT if the second has READY clear whatever its error bit, else      *)
(* FAILED if its error bit is set, else 0.                                 *)
(***************************************************************************)
ExpectedResult(first, last, failed) ==
    IF ~IsReady(first) THEN -3
    ELSE IF ~IsReady(last) THEN -2
    ELSE IF failed THEN -1
    ELSE 0

C3_ResultOfFlags ==
    /\ Returned("rvlib_spiflash_page_program")
        => ret = ExpectedResult(log[3].val, LastDataRead(log),
                                HasProgramError(LastDataRead(log)))
    /\ Returned("rvlib_spiflash_sector_erase")
        => ret = ExpectedResult(log[3].val, LastDataRead(log),
                                HasEraseError(LastDataRead(log)))

C3_Witness ==
    /\ Returned("rvlib_spiflash_page_program")
    /\ ret = RVLIB_SPIFLASH_ERR_TIMEOUT
    /\ HasProgramError(LastDataRead(log))

(***************************************************************************)
(* C4: when page_program or sector_erase returns FAILED, its last          *)
(* transaction is a CLEAR_FLAGS command sent after the final flag query;   *)
(* the device then has READY set and both error flags clear, and the next  *)
(* program or erase call is not rejected with NOTREADY.                    *)
(***************************************************************************)
C4_FailedClearsFlags ==
    \A f \in ProgramOrErase :
        /\ (Returned(f) /\ ret = RVLIB_SPIFLASH_ERR_FAILED)
            => LET t == SplitLog(log)
               IN  /\ Len(t) >= 6
                   /\ t[Len(t)] = SimpleCommand(SPIFLASH_CMD_CLEAR_FLAGS)
                   /\ IsFlagQuery(t[Len(t) - 1])
                   /\ IsReady(dev.flags)
                   /\ ~HasProgramError(dev.flags)
                   /\ ~HasEraseError(dev.flags)
        /\ (Returned(f) /\ afterFailed) => ret # RVLIB_SPIFLASH_ERR_NOTREADY

C4_Witness ==
    /\ Returned("rvlib_spiflash_page_program")
    /\ afterFailed
    /\ ret = RVLIB_SPIFLASH_ERR_FAILED

(***************************************************************************)
(* C5: sector_erase issues the transactions of page_program with the       *)
(* command transaction SECTOR_ERASE (0xD8) plus exactly the three address  *)
(* bytes and no payload byte, and polls with the erase timeout             *)
(* (3,000,000 us) where page_program polls with 5,000 us.                  *)
(***************************************************************************)
PollDeadlineIs(t_us) ==
    /\ timeout_us = t_us
    /\ (npolls = 1 /\ pc # "poll_ret")
        => Remaining(end_time, time_now) = TimeoutTicks(t_us)

C5_SectorEraseOrder ==
    /\ (Returned("rvlib_spiflash_sector_erase") /\ ret # RVLIB_SPIFLASH_ERR_NOTREADY)
        => /\ WriteSequence(SplitLog(log), SPIFLASH_CMD_SECTOR_ERASE, address, <<>>, ret)
           /\ Len(SplitLog(log)[4]) = 5
    /\ (op = "rvlib_spiflash_sector_erase" /\ step = "poll")
        => PollDeadlineIs(3000000)
    /\ (op = "rvlib_spiflash_page_program" /\ step = "poll")
        => PollDeadlineIs(5000)

C5_Witness ==
    /\ Returned("rvlib_spiflash_sector_erase")
    /\ ret = 0
    /\ Len(SplitLog(log)) >= 6

(***************************************************************************)
(* C6: spi_read_bytes(buf, n) exits having written the dummy request 0x100 *)
(* to DATA exactly n times and having read DATA exactly n times into       *)
(* buf[0 .. n-1], whatever the order in which the controller raises        *)
(* CMD_READY and READ_READY; for n = 0 it touches no register.             *)
(***************************************************************************)
IsDummyRequest(e) == e = DataWrite(256)

C6_CountsAtExit ==
    (InPrimitive("spi_read_bytes", "loop") /\ ip' = ip + 1)
    => LET n == prog[ip].arg
           part == OpenPart(log)
           reads == SelectSeq(part, IsDataRead)
       IN  /\ p = n
           /\ ncmd = 0
           /\ Count(part, IsDummyRequest) = n
           /\ Len(reads) = n
           /\ Len(buf) = n
           /\ \A i \in 1 .. n : buf[i] = reads[i].val

C6_ZeroLength ==
    (IsCall(prog, ip, "spi_read_bytes") /\ prog[ip].arg = 0)
    => /\ ip' = ip + 1 \/ UNCHANGED <<ip, pc>>
       /\ UNCHANGED <<acc, log, status>>

C6_ReadBytes == [][C6_CountsAtExit /\ C6_ZeroLength]_vars

C6_Witness ==
    /\ op = "rvlib_spiflash_read_mem"
    /\ nbytes = 2
    /\ IsCall(prog, ip, "spi_end_transaction")
    /\ Count(OpenPart(log), IsDummyRequest) = 2

(***************************************************************************)
(* C7: every write to SLAVESEL writes 0 and comes directly after a STATUS  *)
(* read that showed BUSY clear, with no register access between the two.   *)
(***************************************************************************)
C7_DeselectStep ==
    (log' = Append(log, acc') /\ IsSlaveSelWrite(acc'))
    => /\ acc'.val = 0
       /\ acc.reg = RVLIB_SPIFLASH_REG_STATUS
       /\ ~acc.write
       /\ acc.val % 2 = 0
       /\ status = acc.val

C7_DeselectAfterIdle == [][C7_DeselectStep]_vars

C7_Witness ==
    /\ pc = "ret"
    /\ acc = Deselect
    /\ op = "rvlib_spiflash_page_program"
    /\ step = "command"

(***************************************************************************)
(* C8: each of the four transaction shapes ends with spi_end_transaction:  *)
(* the SLAVESEL = 0 write is the last register write of the transaction,   *)
(* after all of its DATA writes and reads, and no byte of a following      *)
(* transaction is written to DATA before it; every public operation        *)
(* returns with chip select deasserted as its last register write.         *)
(***************************************************************************)
RECURSIVE ExpectedWrites(_)
ExpectedWrites(calls) ==
    IF calls = <<>> THEN <<>>
    ELSE LET c == Head(calls)
             own == IF c.call = "spi_send_byte" THEN <<c.arg>>
                    ELSE IF c.call = "spi_read_bytes"
                         THEN [i \in 1 .. c.arg |-> 256]
                         ELSE <<>>
         IN  own \o ExpectedWrites(Tail(calls))

\* The accesses of the open transaction, from its first DATA write on.
RECURSIVE FromFirstWrite(_)
FromFirstWrite(l) ==
    IF l = <<>> \/ IsDataWrite(Head(l)) THEN l ELSE FromFirstWrite(Tail(l))

C8_FirstByteStep ==
    (log' = Append(log, acc') /\ IsDataWrite(acc') /\ ip = 1)
    => /\ Count(OpenPart(log), IsDataWrite) = 0
       \* chip select is released, unless a previous session left it
       \* asserted and this is the first command of init
       /\ ~cs \/ (op = "rvlib_spiflash_init" /\ step = "first")

C8_DeselectStep ==
    (log' = Append(log, acc') /\ IsSlaveSelWrite(acc'))
    => LET part == FromFirstWrite(OpenPart(log))
           writes == SelectSeq(part, IsDataWrite)
       IN  /\ ip = Len(prog)
           /\ acc'.val = 0
           /\ [i \in 1 .. Len(writes) |-> writes[i].val] = ExpectedWrites(prog)
           /\ Count(part, IsDataRead) = ReadLength(prog)
           /\ txq = <<>>
           /\ rxq = <<>>
           /\ ~cs'

C8_ReturnsDeselected ==
    step = "done"
    => /\ log # <<>>
       /\ log[Len(log)] = Deselect
       /\ acc = Deselect
       /\ txq = <<>>
       /\ ~cs

C8_EndTransaction ==
    /\ []C8_ReturnsDeselected
    /\ [][C8_FirstByteStep /\ C8_DeselectStep]_vars

C8_Witness ==
    /\ Returned("rvlib_spiflash_read_mem")
    /\ nbytes = 2
    /\ Len(log) = 9

(***************************************************************************)
(* C9: spiflash_poll_completion returns the flag byte of its last          *)
(* READ_FLAGS query; it leaves its loop only when that byte has READY set  *)
(* or the deadline has been exceeded, and on the deadline the returned     *)
(* byte has READY clear and the error bits as the device reported them.    *)
(***************************************************************************)
C9_PollReturn ==
    pc = "poll_ret"
    => /\ IsFlagQuery(SplitLog(log)[Len(SplitLog(log))])
       /\ flags = LastDataRead(log)
       /\ \/ IsReady(flags)
          \/ Remaining(end_time, time_now) >= CounterModulus \div 2
       /\ ~IsReady(flags) => time_now # end_time

C9_Witness ==
    /\ pc = "poll_ret"
    /\ ~IsReady(flags)
    /\ HasEraseError(flags)
    /\ npolls >= 2

(***************************************************************************)
(* C10: when the device answers N polls with READY clear and then one with *)
(* READY set before the deadline, the call issues exactly N + 1 READ_FLAGS *)
(* transactions after the command, with no other bus traffic between them, *)
(* and returns success when that last byte has its error bit clear.        *)
(***************************************************************************)
ErrorBitSet(f, fl) ==
    IF f = "rvlib_spiflash_page_program" THEN HasProgramError(fl)
    ELSE HasEraseError(fl)

C10_PollTransactions ==
    \A f \in ProgramOrErase :
        (Returned(f) /\ ret # RVLIB_SPIFLASH_ERR_NOTREADY)
        => LET t == SplitLog(log)
               last == IF ret = RVLIB_SPIFLASH_ERR_FAILED
                       THEN Len(t) - 1 ELSE Len(t)
           IN  /\ last >= 5
               /\ \A i \in 5 .. last : IsFlagQuery(t[i])
               /\ \A i \in 5 .. last - 1 : ~IsReady(FlagsOf(t[i]))
               /\ IsReady(FlagsOf(t[last])) <=> ret # RVLIB_SPIFLASH_ERR_TIMEOUT
               /\ (IsReady(FlagsOf(t[last])) /\ ~ErrorBitSet(f, FlagsOf(t[last])))
                   <=> ret = 0

C10_Witness ==
    /\ Returned("rvlib_spiflash_page_program")
    /\ ret = 0
    /\ Len(SplitLog(log)) = 4 + MaxPolls

(***************************************************************************)
(* C11: with end_time = (start + timeout) mod 2^W the completion poll      *)
(* treats the deadline as expired exactly when (end_time - now) mod 2^W    *)
(* >= 2^(W-1).  For every start value, also when end_time wraps around     *)
(* below start, a not-ready poll at any time from start up to and          *)
(* including end_time keeps polling, and the first not-ready poll at least *)
(* one cycle after end_time stops polling (timeouts below 2^(W-1)).        *)
(***************************************************************************)
\* Cycles from a to b on the wrapping counter.
CyclesFrom(a, b) == (b - a + CounterModulus) % CounterModulus

C11_EveryStart ==
    \A start \in 0 .. CounterModulus - 1 :
    \A timeout \in 0 .. CounterModulus \div 2 - 1 :
    \A elapsed \in 0 .. timeout + CounterModulus \div 2 :
        LET endt == (start + timeout) % CounterModulus
            nowt == (start + elapsed) % CounterModulus
        IN  /\ PollBreakOnTime(endt, nowt) <=> elapsed > timeout
            /\ PollBreakOnTime(endt, nowt)
                <=> CyclesFrom(nowt, endt) >= 2 ^ (CounterWidth - 1)

C11_PollStep ==
    (InPoll /\ ~IsReady(buf[1]) /\ (pc' = "poll_ret" \/ npolls' = npolls + 1))
    => LET timeout == TimeoutTicks(timeout_us)
           start == CyclesFrom(timeout, end_time)
           elapsed == CyclesFrom(start, time_now')
       IN  /\ timeout < CounterModulus \div 2
           /\ elapsed <= timeout => (npolls' = npolls + 1 /\ pc' # "poll_ret")
           /\ elapsed > timeout => (pc' = "poll_ret" /\ npolls' = npolls)

C11_DeadlineWraparound == []C11_EveryStart /\ [][C11_PollStep]_vars

\* A poll whose deadline wrapped around below its start has continued at
\* least once and then stopped one cycle after end_time.
C11_Witness ==
    /\ pc = "poll_ret"
    /\ ~IsReady(flags)
    /\ npolls >= 2
    /\ CyclesFrom(TimeoutTicks(timeout_us), end_time) > end_time
    /\ time_now = (end_time + 1) % CounterModulus

(***************************************************************************)
(* C12: when the controller eventually raises CMD_READY, delivers every    *)
(* requested byte and clears BUSY, and the cycle counter keeps advancing,  *)
(* every call of page_program and sector_erase eventually returns, also    *)
(* when the device never reports READY after the command (the call then    *)
(* returns TIMEOUT after the first not-ready poll past the deadline); the  *)
(* call never returns between issuing the command and either observing     *)
(* READY or passing the deadline.                                          *)
(***************************************************************************)
C12_EventuallyReturns ==
    \A f \in ProgramOrErase : (op = f) ~> Returned(f)

C12_LeavesPollStep ==
    (op \in ProgramOrErase /\ step \in {"command", "poll"}
        /\ step' \notin {"command", "poll"})
    => /\ step = "poll"
       /\ pc = "poll_ret"
       /\ npolls >= 1
       /\ \/ IsReady(flags)
          \/ CyclesFrom(end_time, time_now) \in 1 .. CounterModulus \div 2
       /\ ~IsReady(flags)
            => (step' = "done" /\ ret' = RVLIB_SPIFLASH_ERR_TIMEOUT)

C12_BlocksUntilDone ==
    C12_EventuallyReturns /\ [][C12_LeavesPollStep]_vars

\* The device is still busy with the operation when the call returns
\* TIMEOUT.
C12_Witness ==
    /\ \E f \in ProgramOrErase : Returned(f)
    /\ ret = RVLIB_SPIFLASH_ERR_TIMEOUT
    /\ dev.pend.kind # "none"
    /\ ~IsReady(dev.flags)

(***************************************************************************)
(* C13: from any controller state (stale bytes in the receive queue, the   *)
(* controller busy or idle) rvlib_spiflash_init returns with the receive   *)
(* queue empty, so the three bytes a following rvlib_spiflash_read_id      *)
(* captures are the three bytes clocked in during its READ_ID transaction: *)
(* none is left over from before init or from init's own sequence.         *)
(***************************************************************************)
StaleBytes == UNION { { q[i] : i \in 1 .. Len(q) } : q \in StaleQueues }

C13_InitDrains ==
    /\ Returned("rvlib_spiflash_init") => (rxq = <<>> /\ txq = <<>> /\ inited)
    /\ (inited /\ op = "idle") => rxq = <<>>
    /\ Returned("rvlib_spiflash_read_id")
        => LET reads == SelectSeq(log, IsDataRead)
           IN  /\ [i \in 1 .. Len(reads) |-> reads[i].val] = DeviceId
               /\ buf = DeviceId
               /\ \A i \in 1 .. 3 : buf[i] \notin StaleBytes
               /\ rxq = <<>>

\* init found the controller's queue holding two stale bytes, dropped
\* them, and returned.
C13_Witness ==
    /\ Returned("rvlib_spiflash_init")
    /\ Len(log) >= 2
    /\ log[1] = DataRead(238)
    /\ log[2] = DataRead(17)
    /\ rxq = <<>>

(***************************************************************************)
(* C14: after its drain loop rvlib_spiflash_init issues exactly three      *)
(* simple transactions, 0xFF, 0xFF and CLEAR_FLAGS (0x50) in this order,   *)
(* each ended by a chip-select deassert, then polls the flag status with   *)
(* the erase timeout (3,000,000 us); it reports no status and returns both *)
(* when a poll reads READY and when the deadline passes with the device    *)
(* still not ready.                                                        *)
(***************************************************************************)
\* The accesses of the log before its first DATA write.
DrainPart(l) == SubSeq(l, 1, Len(l) - Len(FromFirstWrite(l)))

C14_InitSequence ==
    /\ Returned("rvlib_spiflash_init")
        => LET t == SplitLog(FromFirstWrite(log))
               d == DrainPart(log)
           IN  /\ \A i \in 1 .. Len(d) : IsDataRead(d[i])
               /\ Len(t) >= 4
               /\ t[1] = SimpleCommand(255)
               /\ t[2] = SimpleCommand(255)
               /\ t[3] = SimpleCommand(80)
               /\ \A i \in 4 .. Len(t) : IsFlagQuery(t[i])
               /\ \A i \in 4 .. Len(t) - 1 : ~IsReady(FlagsOf(t[i]))
               /\ ret = 0
               /\ inited
    /\ (op = "rvlib_spiflash_init" /\ step = "poll") => PollDeadlineIs(3000000)
    /\ PollReturned("rvlib_spiflash_init")
        => \/ IsReady(flags)
           \/ CyclesFrom(end_time, time_now) \in 1 .. CounterModulus \div 2

\* init has returned on the deadline: its last poll read READY clear.
C14_Witness ==
    /\ Returned("rvlib_spiflash_init")
    /\ Len(SplitLog(FromFirstWrite(log))) >= 5
    /\ ~IsReady(LastDataRead(log))

(***************************************************************************)
(* C15: the driver writes DATA (a command, address or payload byte, or the *)
(* dummy request 0x100) only when its most recent STATUS read showed       *)
(* CMD_READY set, and reads DATA only when its most recent STATUS read     *)
(* showed READ_READY set; each spi_send_byte call writes exactly one value *)
(* to DATA and never returns without having written it.                    *)
(***************************************************************************)
\* The step accesses DATA or SLAVESEL.
Accesses == log' = Append(log, acc')

\* The bits of the most recent STATUS read: the status local holds it, and
\* it is the last register access unless a DATA write of the same loop
\* iteration of spi_read_bytes came after it.
RecentStatusShows(bit) ==
    /\ (status \div (2 ^ bit)) % 2 = 1
    /\ \/ acc = RegAccess(0, FALSE, status)
       \/ acc = DataWrite(256) /\ IsCall(prog, ip, "spi_read_bytes")

C15_DataWriteStep ==
    (Accesses /\ IsDataWrite(acc'))
    => /\ RecentStatusShows(1)
       /\ acc.reg = 0
       /\ Len(txq) < CmdDepth

C15_DataReadStep ==
    (Accesses /\ IsDataRead(acc'))
    => /\ RecentStatusShows(2)
       /\ rxq # <<>>

C15_SendByteStep ==
    IsCall(prog, ip, "spi_send_byte")
    => /\ ip' = ip + 1 => (Accesses /\ acc' = DataWrite(prog[ip].arg))
       /\ Accesses => (ip' = ip + 1 /\ prog' = prog)

C15_DataGuards ==
    [][C15_DataWriteStep /\ C15_DataReadStep /\ C15_SendByteStep]_vars

\* spi_read_bytes has requested a byte and captured one on the same STATUS
\* read.
C15_Witness ==
    /\ IsCall(prog, ip, "spi_read_bytes")
    /\ Len(log) >= 2
    /\ IsDataRead(log[Len(log)])
    /\ log[Len(log) - 1] = DataWrite(256)
    /\ acc = log[Len(log)]

(***************************************************************************)
(* C16: in command+address+read and command+address+write transactions the *)
(* three bytes written to DATA after the command byte are                  *)
(* (addr >> 16) mod 256, (addr >> 8) mod 256 and addr mod 256, in this     *)
(* order; bits 24..31 of addr never influence the traffic: two calls whose *)
(* addresses are equal modulo 2^24 produce the same register writes.       *)
(***************************************************************************)
\* Addresses with distinct bytes, with and without bits above bit 23.
AddrSamples ==
    {0, 66051, 8323072, 8323330, 16777215, 16843009, 25100288, 25100546,
     2130772227, 2147483647}

AddrBytes(a) == <<(a \div 65536) % 256, (a \div 256) % 256, a % 256>>

\* The arguments of the spi_send_byte calls of a command function.
SentBytes(calls) ==
    LET sends == SelectSeq(calls, LAMBDA c : c.call = "spi_send_byte")
    IN  [i \in 1 .. Len(sends) |-> sends[i].arg]

\* The values of the register writes of a log, in order.
IsWrite(e) == e.write
WritesOf(l) == SelectSeq(l, IsWrite)

C16_EveryAddress ==
    \A a \in AddrSamples, d \in Payloads, n \in 0 .. MaxRead :
        /\ SentBytes(spi_command_addr_read(3, a, n)) = <<3>> \o AddrBytes(a)
        /\ SentBytes(spi_command_addr_write(2, a, d)) = <<2>> \o AddrBytes(a) \o d
        /\ spi_command_addr_read(3, a, n)
            = spi_command_addr_read(3, a % 16777216, n)
        /\ spi_command_addr_write(2, a, d)
            = spi_command_addr_write(2, a % 16777216, d)

C16_AddressBytes ==
    /\ C16_EveryAddress
    /\ Returned("rvlib_spiflash_read_mem")
        => WritesOf(log)
            = <<DataWrite(3)>>
              \o [i \in 1 .. 3 |-> DataWrite(AddrBytes(address % 16777216)[i])]
              \o [i \in 1 .. nbytes |-> DataWrite(256)]
              \o <<Deselect>>
    /\ (Returned("rvlib_spiflash_page_program") /\ ret # -3)
        => SplitLog(log)[4] = AddressedWrite(2, address % 16777216, data)
    /\ (Returned("rvlib_spiflash_sector_erase") /\ ret # -3)
        => SplitLog(log)[4] = AddressedWrite(216, address % 16777216, <<>>)

\* read_mem has returned from a call whose address has bit 24 set.
C16_Witness ==
    /\ Returned("rvlib_spiflash_read_mem")
    /\ address >= 16777216
    /\ nbytes = 2

(***************************************************************************)
(* C17: rvlib_spiflash_read_id issues exactly one command+read transaction *)
(* with command byte 0x9F and reply length 3, and for every reply          *)
(* (b0, b1, b2) sets manufacturer_id = b0 and device_id = b1 * 256 + b2;   *)
(* it has no failure outcome.                                              *)
(***************************************************************************)
ByteSamples == {0, 1, 23, 128, 255}

C17_EveryReply ==
    \A b0 \in ByteSamples, b1 \in ByteSamples, b2 \in ByteSamples :
        DeviceIdOf(<<b0, b1, b2>>)
            = [manufacturer_id |-> b0, device_id |-> b1 * 256 + b2]

C17_ReadId ==
    /\ C17_EveryReply
    /\ Returned("rvlib_spiflash_read_id")
        => LET reads == SelectSeq(log, IsDataRead)
           IN  /\ Len(SplitLog(log)) = 1
               /\ log[Len(log)] = Deselect
               /\ WritesOf(log)
                    = <<DataWrite(159), DataWrite(256), DataWrite(256),
                        DataWrite(256), Deselect>>
               /\ Len(reads) = 3
               /\ devid.manufacturer_id = reads[1].val
               /\ devid.device_id = reads[2].val * 256 + reads[3].val
               /\ ret = 0

C17_Witness ==
    /\ Returned("rvlib_spiflash_read_id")
    /\ devid = [manufacturer_id |-> 32, device_id |-> 47639]

(***************************************************************************)
(* C18: round trip against the NOR-flash device (erase sets the sector to  *)
(* 0xFF, program writes the payload at the addressed bytes): for addr and  *)
(* len with [addr, addr + len) inside one page of an erased sector,        *)
(* page_program(addr, data, len) returning 0 followed by                   *)
(* read_mem(addr, buf, len) yields buf equal to data byte for byte.        *)
(***************************************************************************)
TestDone == test.pos > Len(TestCalls(test))

C18_RoundTrip ==
    (test.name = "round_trip" /\ Len(test.results) >= 4
        /\ test.results[3].ret = 0)
    => /\ test.results[4].buf = TestData(0, test.len)
       /\ \A i \in 1 .. test.len :
            MemAt(dev.mem, (test.addr + i - 1) % 16777216)
                = TestData(0, test.len)[i]

\* The program filled the last bytes of a page and the read returned them.
C18_Witness ==
    /\ test.name = "round_trip"
    /\ TestDone
    /\ test.addr = PageAddr(1) - TestLen
    /\ test.len = TestLen
    /\ test.results[3].ret = 0
    /\ test.results[4].buf = TestData(0, TestLen)

(***************************************************************************)
(* C19: sector_erase(addr) called twice in a row on an erased sector       *)
(* returns 0 both times (the second call is not rejected with NOT_READY,   *)
(* TIMEOUT or FAILED once the first has returned success), and afterwards  *)
(* every byte of the sector reads back through read_mem as 0xFF.           *)
(***************************************************************************)
AllErased(b, n) == b = [i \in 1 .. n |-> 255]

C19_EraseTwice ==
    test.name = "erase_twice"
    => /\ \A i \in 2 .. 3 : Len(test.results) >= i => test.results[i].ret = 0
       /\ \A i \in 4 .. 5 :
            Len(test.results) >= i => AllErased(test.results[i].buf, TestWindow)
       /\ ~ENABLED SectorEraseRejected
       /\ ~ENABLED SectorEraseFailed
       /\ (Returned("rvlib_spiflash_sector_erase") /\ test.pos = 3)
            => (ret = 0 /\ \A c \in DOMAIN dev.mem : dev.mem[c] = 255)

C19_Witness ==
    /\ test.name = "erase_twice"
    /\ TestDone
    /\ test.results[2].ret = 0
    /\ test.results[3].ret = 0
    /\ AllErased(test.results[5].buf, TestWindow)

(***************************************************************************)
(* C20: after init, erasing a sector, and programming len bytes at the     *)
(* start of its first page and len bytes at the start of its second page   *)
(* (all calls returning 0), reading a window longer than len at each page  *)
(* start returns the programmed bytes in the order written followed by     *)
(* 0xFF for every byte not programmed; programming the second page changes *)
(* no byte read from the first page.                                       *)
(***************************************************************************)
\* What a read of the window at the start of the page is to return.
ExpectedWindow(page) ==
    [i \in 1 .. TestWindow |->
        IF i <= TestLen THEN TestData(page, TestLen)[i] ELSE 255]

WriteTestStatusOk ==
    \A i \in {2, 4, 5} : test.results[i].ret = 0

C20_ReadBack ==
    (test.name = "writetest" /\ TestDone /\ WriteTestStatusOk)
    => /\ Len(test.results) = 7
       /\ TestWindow > TestLen
       /\ AllErased(test.results[3].buf, TestWindow)
       /\ test.results[6].buf = ExpectedWindow(0)
       /\ test.results[7].buf = ExpectedWindow(1)

\* While the second page is programmed the bytes of the first page stay.
C20_FirstPageKept ==
    (test.name = "writetest" /\ test.pos = 5)
    => \A i \in 0 .. TestWindow - 1 :
        MemAt(dev'.mem, PageAddr(0) + i) = MemAt(dev.mem, PageAddr(0) + i)

C20_WriteTest == []C20_ReadBack /\ [][C20_FirstPageKept]_vars

C20_Witness ==
    /\ test.name = "writetest"
    /\ TestDone
    /\ WriteTestStatusOk
    /\ test.results[6].buf = ExpectedWindow(0)
    /\ test.results[7].buf = ExpectedWindow(1)
    /\ ExpectedWindow(0) # ExpectedWindow(1)

(***************************************************************************)
(* bootmon.c: parse_uint, as spiflash_subcommand calls it for the address  *)
(* and the length of "spiflash read".  A string is the sequence of its     *)
(* character codes; the NUL that ends it is read past its last character.  *)
(* A uint32_t is kept as two 16-bit halves, so that 2^32 - 1 and the       *)
(* wraparound of the multiplication are inside the checker's integers.     *)
(***************************************************************************)
UINT32_MAX == [hi |-> 65535, lo |-> 65535]

\* v > w
Uint32Above(v, w) == v.hi > w.hi \/ (v.hi = w.hi /\ v.lo > w.lo)

\* v / m, for a small divisor m
Uint32Div(v, m) ==
    [hi |-> v.hi \div m, lo |-> ((v.hi % m) * 65536 + v.lo) \div m]

\* m * v + d in uint32_t arithmetic: the result is reduced modulo 2^32.
Uint32MulAdd(m, v, d) ==
    LET lo == m * v.lo + d
        hi == m * v.hi + lo \div 65536
    IN  [hi |-> hi % 65536, lo |-> lo % 65536]

\* s[k], counted from 0 as in the code.
CharAt(s, k) == IF k < Len(s) THEN s[k + 1] ELSE 0

\* while (s[p] == ' ') p++;
RECURSIVE SkipSpaces(_, _)
SkipSpaces(s, k) == IF CharAt(s, k) = 32 THEN SkipSpaces(s, k + 1) ELSE k

\* The value of a hexadecimal digit, -1 for any other character.
HexDigit(ch) ==
    IF ch >= 48 /\ ch <= 57 THEN ch - 48
    ELSE IF ch >= 97 /\ ch <= 102 THEN ch - 97 + 10
    ELSE IF ch >= 65 /\ ch <= 70 THEN ch - 65 + 10
    ELSE -1

\* The value of a decimal digit, -1 for any other character.
DecDigit(ch) == IF ch < 48 \/ ch > 57 THEN -1 ELSE ch - 48

\* if (v > UINT32_MAX / 16) return -1;  if (v > UINT32_MAX / 10) return -1;
ParseOverflows(v, base, d) == Uint32Above(v, Uint32Div(UINT32_MAX, base))

\* The digit loops of parse_uint, from position k with v and good so far;
\* val is what *val holds.
RECURSIVE ParseDigits(_, _, _, _, _, _)
ParseDigits(s, k, v, good, base, val) ==
    LET d == IF base = 16 THEN HexDigit(CharAt(s, k)) ELSE DecDigit(CharAt(s, k))
    IN  IF d < 0
            THEN IF good THEN [ret |-> k, val |-> v] ELSE [ret |-> -1, val |-> val]
        ELSE IF ParseOverflows(v, base, d) THEN [ret |-> -1, val |-> val]
        ELSE ParseDigits(s, k + 1, Uint32MulAdd(base, v, d), TRUE, base, val)

\* if (s[p] == '0' && (s[p + 1] == 'x' || s[p + 1] == 'X'))
HasHexPrefix(s, k) == CharAt(s, k) = 48 /\ CharAt(s, k + 1) \in {120, 88}

parse_uint(s, val) ==
    LET k == SkipSpaces(s, 0)
    IN  IF HasHexPrefix(s, k)
            THEN ParseDigits(s, k + 2, [hi |-> 0, lo |-> 0], FALSE, 16, val)
        ELSE ParseDigits(s, k, [hi |-> 0, lo |-> 0], FALSE, 10, val)

\* What addr and len hold before parse_uint stores into them: they are not
\* initialised, and no value of a uint32_t.
Unset == [hi |-> -1, lo |-> -1]

\* The decimal digits ds as text.
Dec(ds) == [k \in 1 .. Len(ds) |-> 48 + ds[k]]

\* The numbers of the command lines: decimal and hexadecimal, at and around
\* 2^32 - 1, and text with no digit.
ParseNumbers ==
    { <<>>, Dec(<<0>>), Dec(<<7>>), Dec(<<0, 3, 2>>),
      Dec(<<4, 2, 9, 4, 9, 6, 7, 2, 9, 5>>), Dec(<<4, 2, 9, 4, 9, 6, 7, 2, 9, 6>>),
      Dec(<<4, 2, 9, 4, 9, 6, 7, 2, 9, 9>>), Dec(<<4, 2, 9, 4, 9, 6, 7, 3, 0, 0>>),
      Dec(<<4, 2, 9, 4, 9, 6, 7, 2, 9, 6, 1>>), Dec(<<9, 9, 9, 9, 9, 9, 9, 9, 9, 9, 9>>),
      <<48, 120>>, <<48, 120, 48>>, <<48, 120, 55, 70, 48, 48, 48, 48>>,
      <<48, 120, 102, 102, 102, 102, 102, 102, 102, 102>>,
      <<48, 88, 70, 70, 70, 70, 70, 70, 70, 70>>,
      <<48, 120, 49, 48, 48, 48, 48, 48, 48, 48, 48>>,
      <<48, 120, 48, 70, 70, 70, 70, 70, 70, 70, 70>> }

\* The text after "read": blanks, a number, and what follows it.
ParseInputs ==
    { lead \o num \o rest :
        lead \in {<<>>, <<32>>, <<32, 32>>},
        num \in ParseNumbers,
        rest \in {<<>>, <<32, 51, 50>>, <<103>>, <<32, 48, 120, 49, 48>>} }

\* One parse_uint call of spiflash_subcommand: ret < 0 is returned to the
\* caller, otherwise pcmd += ret.
SubcommandParse ==
    LET r == parse_uint(pcmd, Unset)
    IN  /\ parsed' = Append(parsed, [s |-> pcmd, ret |-> r.ret, val |-> r.val])
        /\ pcmd' = IF r.ret < 0 THEN pcmd ELSE SubSeq(pcmd, r.ret + 1, Len(pcmd))

driverVars == <<op, step, address, data, nbytes, ret, inited, devid, afterFailed,
                test, pollVars, busVars, traceVars, ctrlVars, dev>>

\* int ret = parse_uint(pcmd, &addr);
SubcommandParseAddr ==
    /\ parsed = <<>>
    /\ SubcommandParse
    /\ UNCHANGED <<driverVars, readVars, irqVars>>

\* ret = parse_uint(pcmd, &len);
SubcommandParseLen ==
    /\ Len(parsed) = 1
    /\ parsed[1].ret >= 0
    /\ SubcommandParse
    /\ UNCHANGED <<driverVars, readVars, irqVars>>

\* No driver call is in progress and the controller is idle.
DriverIdle == PowerUp /\ test = NoTest /\ txq = <<>> /\ rxq = <<>>

ParseInit == DriverIdle /\ ReadIdle /\ IrqIdle /\ pcmd \in ParseInputs /\ parsed = <<>>

ParseNext == SubcommandParseAddr \/ SubcommandParseLen

ParseSpec == ParseInit /\ [][ParseNext]_vars

(***************************************************************************)
(* bootmon.c: read_command, as command_loop calls it with its static       *)
(* buffer.  One step is one iteration of the loop: a character received    *)
(* from the serial port, or none.                                          *)
(***************************************************************************)
\* Characters one call may receive before the model ends the line.
MaxRecv == 5

\* What rvlib_uart_recv_byte returns: 'a', TAB, backspace, CR, LF.
RecvChars == {97, 9, 8, 13, 10}

\* Mutant: the test leaves no room for the terminating NUL.
ReadCommandHasRoomOffByOne(at, maxlen) == at < maxlen

\* else if (pos + 1 < maxlen)
ReadCommandHasRoom(at, maxlen) == at + 1 < maxlen

\* cmdbuf[k] = ch
Store(k, ch) ==
    /\ cmdbuf' = [cmdbuf EXCEPT ![k] = ch]
    /\ written' = written \cup {k}

\* command_loop calls read_command(cmdbuf, sizeof(cmdbuf), cmd_echo); the
\* buffer holds the previous line.
ReadCommandCall ==
    /\ reading \in {"idle", "done"}
    /\ reading' = "loop"
    /\ pos' = 0
    /\ recv_c' = -1
    /\ cmd_echo' \in {0, 1}
    /\ echoed' = <<>>
    /\ nrecv' = 0
    /\ written' = {}
    /\ UNCHANGED <<cmdbuf, driverVars, parseVars, irqVars>>

\* rvlib_uart_recv_byte returns -1: the do-while loop asks again.
ReadCommandWait ==
    /\ reading = "loop"
    /\ recv_c' = -1
    /\ UNCHANGED <<cmdbuf, pos, cmd_echo, echoed, reading, nrecv, written,
                   driverVars, parseVars, irqVars>>

\* One received character: CR or LF ends the line with a NUL at pos, TAB
\* becomes a blank, backspace steps back, any other character is stored
\* while there is room and dropped otherwise; what was not dropped is
\* echoed.
ReadCommandRecv ==
    /\ reading = "loop"
    /\ nrecv < MaxRecv
    /\ nrecv' = nrecv + 1
    /\ \E ch \in RecvChars :
        LET ch2 == IF ch = 9 THEN 32 ELSE ch
        IN  IF ch \in {13, 10}
                THEN /\ recv_c' = ch
                     /\ Store(pos, 0)
                     /\ reading' = "done"
                     /\ UNCHANGED <<pos, echoed>>
            ELSE /\ recv_c' = ch2
                 /\ reading' = "loop"
                 /\ IF ch2 = 8
                        THEN /\ pos' = IF pos > 0 THEN pos - 1 ELSE pos
                             /\ UNCHANGED <<cmdbuf, written>>
                             /\ echoed' = IF cmd_echo # 0 THEN Append(echoed, ch2)
                                          ELSE echoed
                    ELSE IF ReadCommandHasRoom(pos, CmdBufLen)
                        THEN /\ Store(pos, ch2)
                             /\ pos' = pos + 1
                             /\ echoed' = IF cmd_echo # 0 THEN Append(echoed, ch2)
                                          ELSE echoed
                    ELSE UNCHANGED <<cmdbuf, written, pos, echoed>>
    /\ UNCHANGED <<cmd_echo, driverVars, parseVars, irqVars>>

ReadInit == DriverIdle /\ ParseIdle /\ IrqIdle /\ ReadIdle

ReadNext == ReadCommandCall \/ ReadCommandWait \/ ReadCommandRecv

ReadSpec == ReadInit /\ [][ReadNext]_vars

(***************************************************************************)
(* test_interrupt.c and rvlib_interrupt.h: the interrupt self-test.  One   *)
(* step of the main program is one statement that reads or writes a CSR, a *)
(* timer register or a volatile global.  The trap vector, the timer and    *)
(* the start-up code are not in the source: a pending, enabled timer       *)
(* interrupt is taken before the next statement and its handler runs to    *)
(* its end with interrupts masked; the counter is followed from one        *)
(* compare value to the next; the value main returns is the exit status.   *)
(* Left out: the console output, the LEDs, and timer_ok with the timing    *)
(* check of each interrupt, which only selects the text printed.           *)
(***************************************************************************)
\* Runs of handle_timer_interrupt after which the model stops the timer.
MaxInterrupts == 14

\* Cycles per microsecond; rvlib_hardware.h defines it for the board.
RVLIB_CPU_FREQ_MHZ == 100

MSTATUS_MIE == 8
MIE_MSIE == 8
MIE_MTIE == 128
MIE_MEIE == 2048
num_interrupts == 12

\* csrs / csrsi: the bits of mask are set in the register.
RECURSIVE csrs(_, _)
csrs(reg, mask) ==
    IF reg = 0 THEN mask
    ELSE IF mask = 0 THEN reg
    ELSE (IF reg % 2 = 1 \/ mask % 2 = 1 THEN 1 ELSE 0)
         + 2 * csrs(reg \div 2, mask \div 2)

\* csrc / csrci: the bits of mask are cleared in the register.
RECURSIVE csrc(_, _)
csrc(reg, mask) ==
    IF reg = 0 THEN 0
    ELSE (IF reg % 2 = 1 /\ mask % 2 = 0 THEN 1 ELSE 0)
         + 2 * csrc(reg \div 2, mask \div 2)

\* mie after rvlib_enable_software_interrupt(enable).
rvlib_enable_software_interrupt(reg, enable) ==
    IF enable # 0 THEN csrs(reg, MIE_MSIE) ELSE csrc(reg, MIE_MSIE)

\* mie after rvlib_enable_timer_interrupt(enable): both branches are csrs.
rvlib_enable_timer_interrupt(reg, enable) ==
    IF enable # 0 THEN csrs(reg, MIE_MTIE) ELSE csrs(reg, MIE_MTIE)

\* mie after rvlib_enable_external_interrupt(enable): both branches are
\* csrs.
rvlib_enable_external_interrupt(reg, enable) ==
    IF enable # 0 THEN csrs(reg, MIE_MEIE) ELSE csrs(reg, MIE_MEIE)

\* scheduled_interrupt = RVLIB_CPU_FREQ_MHZ * 123450;
FirstInterruptAt == RVLIB_CPU_FREQ_MHZ * 123450

\* timer_next_interrupt = RVLIB_CPU_FREQ_MHZ * 12345 * (i + 1) * (i + 10);
NextInterruptAt(k) == RVLIB_CPU_FREQ_MHZ * 12345 * (k + 1) * (k + 10)

\* The compare values the counter may reach.
TimePoints == {FirstInterruptAt} \cup { NextInterruptAt(k) : k \in 1 .. MaxInterrupts }

\* The machine timer interrupt is pending and enabled.
TimerInterruptTaken ==
    /\ BitSet(mstatus, 3)
    /\ BitSet(mie, 7)
    /\ counter >= timecmp

Running == main_pc \notin {"exited", "returned"}

\* A statement of the main program at position at is executed.
MainAt(at) == main_pc = at /\ ~TimerInterruptTaken

\* The counter reaches the next compare value.
Tick ==
    /\ Running
    /\ ~TimerInterruptTaken
    /\ \E t \in TimePoints :
        /\ t > counter
        /\ \A u \in TimePoints : u > counter => t <= u
        /\ counter' = t
    /\ UNCHANGED <<mstatus, mie, timecmp, timer_count_interrupts,
                   timer_next_interrupt, test_state, timer_i, main_pc,
                   exit_status, traps, untimely, driverVars, parseVars, readVars>>

\* Mutant: the handler does not count the interrupt.
HandlerCountKept(n) == n

\* timer_count_interrupts += 1;
HandlerCount(n) == n + 1

\* handle_timer_interrupt, entered through the trap vector.
TimerInterrupt ==
    /\ Running
    /\ TimerInterruptTaken
    /\ timer_count_interrupts < MaxInterrupts
    /\ timer_count_interrupts' = HandlerCount(timer_count_interrupts)
    /\ timecmp' = timer_next_interrupt
    /\ untimely' = (untimely \/ ~(main_pc = "wait"
                                  /\ timer_i = timer_count_interrupts + 1))
    /\ UNCHANGED <<mstatus, mie, counter, timer_next_interrupt, test_state,
                   timer_i, main_pc, exit_status, traps,
                   driverVars, parseVars, readVars>>

\* main: rvlib_interrupt_init(); rvlib_interrupt_enable();
MainStart ==
    /\ MainAt("main")
    /\ mstatus' = csrs(mstatus, MSTATUS_MIE)
    /\ main_pc' = "timer_clear"
    /\ UNCHANGED <<mie, counter, timecmp, timer_count_interrupts,
                   timer_next_interrupt, test_state, timer_i, exit_status,
                   traps, untimely, driverVars, parseVars, readVars>>

\* test_timer: rvlib_timer_reset_counter(); rvlib_timer_set_timecmp(UINT64_MAX);
\* timer_count_interrupts = 0;
TimerClear ==
    /\ MainAt("timer_clear")
    /\ counter' = 0
    /\ timecmp' = UINT64_MAX
    /\ timer_count_interrupts' = 0
    /\ main_pc' = "timer_enable"
    /\ UNCHANGED <<mstatus, mie, timer_next_interrupt, test_state, timer_i,
                   exit_status, traps, untimely, driverVars, parseVars, readVars>>

\* rvlib_enable_timer_interrupt(1);
TimerEnable ==
    /\ MainAt("timer_enable")
    /\ mie' = rvlib_enable_timer_interrupt(mie, 1)
    /\ main_pc' = "timer_schedule"
    /\ UNCHANGED <<mstatus, counter, timecmp, timer_count_interrupts,
                   timer_next_interrupt, test_state, timer_i, exit_status,
                   traps, untimely, driverVars, parseVars, readVars>>

\* rvlib_timer_set_timecmp(scheduled_interrupt); for (int i = 1; ...
TimerSchedule ==
    /\ MainAt("timer_schedule")
    /\ timecmp' = FirstInterruptAt
    /\ timer_i' = 1
    /\ main_pc' = "prepare"
    /\ UNCHANGED <<mstatus, mie, counter, timer_count_interrupts,
                   timer_next_interrupt, test_state, exit_status, traps,
                   untimely, driverVars, parseVars, readVars>>

\* timer_next_interrupt = RVLIB_CPU_FREQ_MHZ * 12345 * (i + 1) * (i + 10);
TimerPrepare ==
    /\ MainAt("prepare")
    /\ timer_next_interrupt' = NextInterruptAt(timer_i)
    /\ main_pc' = "wait"
    /\ UNCHANGED <<mstatus, mie, counter, timecmp, timer_count_interrupts,
                   test_state, timer_i, exit_status, traps, untimely,
                   driverVars, parseVars, readVars>>

\* while (timer_count_interrupts < i) ;  The loop is left.
TimerWait ==
    /\ MainAt("wait")
    /\ ~(timer_count_interrupts < timer_i)
    /\ main_pc' = "check"
    /\ UNCHANGED <<mstatus, mie, counter, timecmp, timer_count_interrupts,
                   timer_next_interrupt, test_state, timer_i, exit_status,
                   traps, untimely, driverVars, parseVars, readVars>>

\* The rest of the loop body, i++ and the loop test i <= num_interrupts.
TimerCheck ==
    /\ MainAt("check")
    /\ timer_i' = timer_i + 1
    /\ main_pc' = IF timer_i + 1 <= num_interrupts THEN "prepare" ELSE "cancel"
    /\ UNCHANGED <<mstatus, mie, counter, timecmp, timer_count_interrupts,
                   timer_next_interrupt, test_state, exit_status, traps,
                   untimely, driverVars, parseVars, readVars>>

\* rvlib_timer_set_timecmp(UINT64_MAX);
TimerCancel ==
    /\ MainAt("cancel")
    /\ timecmp' = UINT64_MAX
    /\ main_pc' = "final_check"
    /\ UNCHANGED <<mstatus, mie, counter, timer_count_interrupts,
                   timer_next_interrupt, test_state, timer_i, exit_status,
                   traps, untimely, driverVars, parseVars, readVars>>

\* usleep(1000000); if (timer_count_interrupts != num_interrupts) ...
TimerFinalCheck ==
    /\ MainAt("final_check")
    /\ main_pc' = "timer_disable"
    /\ UNCHANGED <<mstatus, mie, counter, timecmp, timer_count_interrupts,
                   timer_next_interrupt, test_state, timer_i, exit_status,
                   traps, untimely, driverVars, parseVars, readVars>>

\* rvlib_enable_timer_interrupt(0);
TimerDisable ==
    /\ MainAt("timer_disable")
    /\ mie' = rvlib_enable_timer_interrupt(mie, 0)
    /\ main_pc' = "data_state"
    /\ UNCHANGED <<mstatus, counter, timecmp, timer_count_interrupts,
                   timer_next_interrupt, test_state, timer_i, exit_status,
                   traps, untimely, driverVars, parseVars, readVars>>

\* handle_unexpected_trap, entered through the trap vector with interrupts
\* masked: the switch on test_state.
HandleUnexpectedTrap ==
    /\ traps' = Append(traps, test_state)
    /\ mstatus' = csrc(mstatus, MSTATUS_MIE)
    /\ IF test_state = 1
        THEN test_state' = 2 /\ main_pc' = "branch_state" /\ exit_status' = exit_status
       ELSE IF test_state = 3
        THEN test_state' = 4 /\ main_pc' = "finished" /\ exit_status' = exit_status
       ELSE test_state' = test_state /\ main_pc' = "exited" /\ exit_status' = 1
    /\ UNCHANGED <<mie, counter, timecmp, timer_count_interrupts,
                   timer_next_interrupt, timer_i, untimely,
                   driverVars, parseVars, readVars>>

\* test_misaligned_data: test_state = 1;
MisalignedData ==
    /\ MainAt("data_state")
    /\ test_state' = 1
    /\ main_pc' = "data_access"
    /\ UNCHANGED <<mstatus, mie, counter, timecmp, timer_count_interrupts,
                   timer_next_interrupt, timer_i, exit_status, traps, untimely,
                   driverVars, parseVars, readVars>>

\* uint32_t val = *badptr;  The load traps.
MisalignedDataTrap ==
    /\ MainAt("data_access")
    /\ HandleUnexpectedTrap

\* The load does not trap: test_misaligned_data prints the error and
\* returns, and main returns 0.
MisalignedDataReturn ==
    /\ MainAt("data_access")
    /\ main_pc' = "returned"
    /\ exit_status' = 0
    /\ UNCHANGED <<mstatus, mie, counter, timecmp, timer_count_interrupts,
                   timer_next_interrupt, test_state, timer_i, traps, untimely,
                   driverVars, parseVars, readVars>>

\* test_misaligned_branch: test_state = 3;
MisalignedBranch ==
    /\ MainAt("branch_state")
    /\ test_state' = 3
    /\ main_pc' = "branch_call"
    /\ UNCHANGED <<mstatus, mie, counter, timecmp, timer_count_interrupts,
                   timer_next_interrupt, timer_i, exit_status, traps, untimely,
                   driverVars, parseVars, readVars>>

\* badptr();  The call traps, inside the first run of the handler.
MisalignedBranchTrap ==
    /\ MainAt("branch_call")
    /\ HandleUnexpectedTrap

\* The call does not trap: test_misaligned_branch prints the error and
\* returns to the handler, which leaves the switch and calls _Exit(1).
MisalignedBranchReturn ==
    /\ MainAt("branch_call")
    /\ main_pc' = "exited"
    /\ exit_status' = 1
    /\ UNCHANGED <<mstatus, mie, counter, timecmp, timer_count_interrupts,
                   timer_next_interrupt, test_state, timer_i, traps, untimely,
                   driverVars, parseVars, readVars>>

\* test_finished: _Exit(0);
TestFinished ==
    /\ MainAt("finished")
    /\ main_pc' = "exited"
    /\ exit_status' = 0
    /\ UNCHANGED <<mstatus, mie, counter, timecmp, timer_count_interrupts,
                   timer_next_interrupt, test_state, timer_i, traps, untimely,
                   driverVars, parseVars, readVars>>

\* A trap the test did not provoke, at any statement.
OtherTrap ==
    /\ Running
    /\ main_pc \notin {"data_access", "branch_call"}
    /\ HandleUnexpectedTrap

\* mie at reset: no interrupt enabled, or software and external interrupts
\* enabled.
IrqInit ==
    /\ DriverIdle /\ ParseIdle /\ ReadIdle
    /\ IrqReset
    /\ mie \in {0, MIE_MSIE + MIE_MEIE}

IrqNext ==
    \/ MainStart \/ TimerClear \/ TimerEnable \/ TimerSchedule
    \/ TimerPrepare \/ TimerWait \/ TimerCheck \/ TimerCancel
    \/ TimerFinalCheck \/ TimerDisable
    \/ MisalignedData \/ MisalignedDataTrap \/ MisalignedDataReturn
    \/ MisalignedBranch \/ MisalignedBranchTrap \/ MisalignedBranchReturn
    \/ TestFinished \/ OtherTrap
    \/ TimerInterrupt \/ Tick

IrqSpec == IrqInit /\ [][IrqNext]_vars

(***************************************************************************)
(* C21: rvlib_enable_timer_interrupt(enable) and                           *)
(* rvlib_enable_external_interrupt(enable): with enable != 0 the machine   *)
(* interrupt-enable bit (MIE.MTIE 0x80, MIE.MEIE 0x800) is set, with       *)
(* enable == 0 it is cleared, and no other bit of mie changes; after       *)
(* rvlib_enable_timer_interrupt(0) at the end of test_timer,               *)
(* handle_timer_interrupt is not invoked again.                            *)
(***************************************************************************)
\* reg with bit k set for enable != 0 and cleared for enable == 0.
C21_Expected(reg, k, enable) ==
    IF enable # 0 THEN WithBit(reg, k) ELSE WithoutBit(reg, k)

\* Both functions, applied to the mie of the state.
C21_Functions ==
    \A enable \in {0, 1, 2} :
        /\ rvlib_enable_timer_interrupt(mie, enable) = C21_Expected(mie, 7, enable)
        /\ rvlib_enable_external_interrupt(mie, enable) = C21_Expected(mie, 11, enable)

\* The two calls of test_timer.
C21_TimerStep ==
    /\ (main_pc = "timer_enable" /\ main_pc' = "timer_schedule")
        => mie' = WithBit(mie, 7)
    /\ (main_pc = "timer_disable" /\ main_pc' = "data_state")
        => mie' = WithoutBit(mie, 7)

C21_NotInvokedAgain ==
    main_pc \notin {"main", "timer_clear", "timer_enable", "timer_schedule",
                    "prepare", "wait", "check", "cancel", "final_check",
                    "timer_disable"}
    => UNCHANGED <<timer_count_interrupts, timecmp>>

C21_EnableBits == [][C21_TimerStep /\ C21_NotInvokedAgain /\ C21_Functions]_vars

\* test_timer has called rvlib_enable_timer_interrupt(0), and MTIE is set.
C21_Witness ==
    /\ main_pc = "data_state"
    /\ timer_count_interrupts = num_interrupts
    /\ BitSet(mie, 7)

(***************************************************************************)
(* C22: throughout spi_read_bytes(buf, n), entered when the controller     *)
(* holds no received byte and owes none: the dummy requests issued are at  *)
(* most n and the bytes captured are at most the requests issued; a        *)
(* request is written directly after a STATUS read, on whose CMD_READY it  *)
(* rests, and only while fewer than n were issued; a byte is dequeued on   *)
(* the READ_READY of the same STATUS read, after that read or after the    *)
(* request of the same iteration, so an iteration issues at most one       *)
(* request and dequeues at most one byte; the k-th byte dequeued           *)
(* (k = 0, 1, ...) goes to buf[k].                                         *)
(***************************************************************************)
InReadBytes == IsCall(prog, ip, "spi_read_bytes")

Issued == prog[ip].arg - ncmd

IsStatusSnapshot(e) ==
    e = RegAccess(RVLIB_SPIFLASH_REG_STATUS, FALSE, status)

C22_Counts ==
    (InReadBytes /\ entry_rx = 0)
    => /\ Issued = Count(OpenPart(log), IsDummyRequest)
       /\ p = Count(OpenPart(log), IsDataRead)
       /\ Issued >= 0
       /\ Issued <= prog[ip].arg
       /\ p <= Issued

C22_RequestStep ==
    (InReadBytes /\ log' = Append(log, acc') /\ IsDataWrite(acc'))
    => /\ IsDummyRequest(acc')
       /\ IsStatusSnapshot(acc)
       /\ BitSet(status, RVLIB_SPIFLASH_BIT_STATUS_CMDRDY)
       /\ Issued < prog[ip].arg
       /\ ncmd' = ncmd - 1
       /\ UNCHANGED <<status, p, buf, ip>>

C22_CaptureStep ==
    (InReadBytes /\ log' = Append(log, acc') /\ IsDataRead(acc'))
    => /\ IsStatusSnapshot(acc) \/ IsDummyRequest(acc)
       /\ BitSet(status, RVLIB_SPIFLASH_BIT_STATUS_READRDY)
       /\ p < prog[ip].arg
       /\ buf' = [buf EXCEPT ![p + 1] = acc'.val % 256]
       /\ p' = p + 1
       /\ UNCHANGED <<status, ncmd, ip>>

C22_ReadBytesLoop ==
    /\ []C22_Counts
    /\ [][C22_RequestStep /\ C22_CaptureStep]_vars

C22_Witness ==
    /\ InReadBytes
    /\ entry_rx = 0
    /\ prog[ip].arg = 2
    /\ Issued = 2
    /\ p = 1
    /\ buf[1] # -1

(***************************************************************************)
(* C23: rvlib_spiflash_init writes no register before its drain loop has   *)
(* exited; in the loop it reads DATA once after each STATUS read that      *)
(* shows READ_READY and at no other time; the loop exits on one STATUS     *)
(* read that shows READ_READY clear and BUSY clear, so not while the       *)
(* controller is busy or holds a received byte, and the first write of     *)
(* init, the byte 0xFF to DATA, comes only after that exit.                *)
(***************************************************************************)
InDrain == op = "rvlib_spiflash_init" /\ step = "drain"

ShowsReadReady(e) ==
    /\ e.reg = RVLIB_SPIFLASH_REG_STATUS
    /\ ~e.write
    /\ BitSet(e.val, RVLIB_SPIFLASH_BIT_STATUS_READRDY)

ShowsIdleAndEmpty(e) ==
    /\ e.reg = RVLIB_SPIFLASH_REG_STATUS
    /\ ~e.write
    /\ ~BitSet(e.val, RVLIB_SPIFLASH_BIT_STATUS_READRDY)
    /\ ~BitSet(e.val, RVLIB_SPIFLASH_BIT_STATUS_BUSY)

C23_NoWriteInDrain ==
    InDrain
    => /\ \A k \in 1 .. Len(log) : IsDataRead(log[k])
       /\ ~acc.write \/ log = <<>>
       /\ pc = "drain_read" => (ShowsReadReady(acc) /\ acc.val = status)
       /\ pc = "ret" => (ShowsIdleAndEmpty(acc) /\ rxq = <<>> /\ txq = <<>>)

C23_DrainReadStep ==
    /\ (InDrain /\ log' # log)
        => /\ pc = "drain_read"
           /\ log' = Append(log, acc')
           /\ IsDataRead(acc')
           /\ pc' = "drain"
    /\ (InDrain /\ pc = "drain_read" /\ <<pc, acc, status>>' # <<pc, acc, status>>)
        => log' = Append(log, acc') /\ IsDataRead(acc')

C23_DrainStatusStep ==
    (InDrain /\ pc = "drain" /\ pc' # "drain")
    => /\ acc' = RegAccess(RVLIB_SPIFLASH_REG_STATUS, FALSE, StatusReg)
       /\ pc' = "drain_read" <=> ShowsReadReady(acc')
       /\ pc' = "ret" <=> ShowsIdleAndEmpty(acc')
       /\ pc' = "ret" => (rxq = <<>> /\ txq = <<>>)

C23_FirstWriteStep ==
    /\ (InDrain /\ step' # "drain")
        => /\ pc = "ret"
           /\ step' = "first"
           /\ prog' = spi_command_simple(255)
    /\ (op = "rvlib_spiflash_init" /\ step = "first" /\ log' # log
        /\ \A k \in 1 .. Len(log) : IsDataRead(log[k]))
        => log' = Append(log, DataWrite(255))

C23_DrainLoop ==
    /\ []C23_NoWriteInDrain
    /\ [][C23_DrainReadStep /\ C23_DrainStatusStep /\ C23_FirstWriteStep]_vars

\* init found the controller busy with a stale request, read the byte it
\* brought, left the loop and wrote its first 0xFF.
C23_Witness ==
    /\ op = "rvlib_spiflash_init"
    /\ step = "first"
    /\ Len(log) >= 2
    /\ IsDataRead(log[Len(log) - 1])
    /\ log[Len(log)] = DataWrite(255)
    /\ dev.nout = 1

(***************************************************************************)
(* C24: the completion poll makes its first flag query on entry, before    *)
(* any look at the deadline, and tests READY before the deadline: a flag   *)
(* byte with READY set ends the loop without the counter being read.  So   *)
(* when the counter had passed the deadline by the time a query returned   *)
(* READY, page_program and sector_erase do not return TIMEOUT: they return *)
(* success when that byte has the operation's error bit clear and FAILED,  *)
(* after clearing the flags, when it has the bit set.                      *)
(***************************************************************************)
PastDeadline ==
    CyclesFrom(end_time, cycle_counter) \in 1 .. CounterModulus \div 2

C24_QueryOnEntry ==
    /\ (step # "poll" /\ step' = "poll")
        => /\ npolls' = 1
           /\ prog' = spi_command_read(112, 1)
           /\ pc' = "wait"
    /\ step = "poll" => npolls >= 1
    /\ \A f \in ProgramOrErase :
        PollReturned(f)
        => /\ Len(SplitLog(log)) >= 5
           /\ IsFlagQuery(SplitLog(log)[Len(SplitLog(log))])
           /\ flags = FlagsOf(SplitLog(log)[Len(SplitLog(log))])

C24_ReadyFirst ==
    (InPoll /\ IsReady(buf[1]) /\ <<pc, npolls, time_now>>' # <<pc, npolls, time_now>>)
    => /\ pc' = "poll_ret"
       /\ flags' = buf[1]
       /\ UNCHANGED <<time_now, npolls, log, acc>>

C24_ReadyLate ==
    \A f \in ProgramOrErase :
        /\ (PollReturned(f) /\ IsReady(flags) /\ PastDeadline /\ step' # "poll")
            => IF ErrorBitSet(f, flags)
               THEN step' = "failed" /\ prog' = spi_command_simple(80)
               ELSE step' = "done" /\ ret' = 0
        /\ (op = f /\ step = "failed" /\ step' # "failed")
            => step' = "done" /\ ret' = RVLIB_SPIFLASH_ERR_FAILED
        /\ (op = f /\ step # "done" /\ step' = "done"
            /\ ret' = RVLIB_SPIFLASH_ERR_TIMEOUT)
            => PollReturned(f) /\ ~IsReady(flags)

C24_ReadyBeforeDeadline ==
    [][C24_QueryOnEntry /\ C24_ReadyFirst /\ C24_ReadyLate]_vars

\* The deadline passed while the first query of a page_program was under
\* way, and the query returned READY with the program error.
C24_Witness ==
    /\ PollReturned("rvlib_spiflash_page_program")
    /\ npolls = 1
    /\ PastDeadline
    /\ IsReady(flags)
    /\ HasProgramError(flags)

(***************************************************************************)
(* C25: over any sequence of page_program and sector_erase calls against a *)
(* device whose CLEAR_FLAGS resets PROGRAM_ERROR and ERASE_ERROR: a call   *)
(* returns FAILED only when the device raised the error flag for the       *)
(* operation that the call's own command transaction started; an error bit *)
(* that was set when the call started, and shows in its pre-flight flag    *)
(* byte, does not make it return FAILED.                                   *)
(***************************************************************************)
CommandOf(f) ==
    IF f = "rvlib_spiflash_page_program" THEN SPIFLASH_CMD_PAGE_PROGRAM
    ELSE SPIFLASH_CMD_SECTOR_ERASE

\* The call has sent its command in a transaction of its own, closed.
Started(f, l) ==
    \E i \in 1 .. Len(SplitLog(l)) :
        /\ SplitLog(l)[i][1] = DataWrite(CommandOf(f))
        /\ SplitLog(l)[i][Len(SplitLog(l)[i])] = Deselect

FaultInCall(f) == faulted /\ Started(f, log)

C25_StaleErrorBits ==
    \A f \in ProgramOrErase :
        Returned(f)
        => /\ ret = RVLIB_SPIFLASH_ERR_FAILED => FaultInCall(f)
           /\ (log # <<>> /\ ErrorBitSet(f, FlagsOf(SplitLog(log)[1]))
               /\ ~FaultInCall(f))
               => ret \in {0, RVLIB_SPIFLASH_ERR_TIMEOUT,
                           RVLIB_SPIFLASH_ERR_NOTREADY}

\* A page_program that found PROGRAM_ERROR left set by an earlier
\* operation and returned success.
C25_Witness ==
    /\ inited
    /\ Returned("rvlib_spiflash_page_program")
    /\ ret = 0
    /\ HasProgramError(FlagsOf(SplitLog(log)[1]))
    /\ ~faulted

(***************************************************************************)
(* C26: in test_timer, for every interleaving of handle_timer_interrupt    *)
(* with the main loop, the handler runs exactly num_interrupts (12) times: *)
(* the i-th wait ends only after the i-th interrupt, each handler run      *)
(* re-arms the timer with the timer_next_interrupt value the main loop     *)
(* prepared for the following interrupt, and after the main loop sets      *)
(* timecmp to UINT64_MAX no further interrupt is counted, so               *)
(* timer_count_interrupts equals 12 at the final check.                    *)
(*                                                                         *)
(* This holds for the interleavings in which every interrupt is taken      *)
(* while the main loop is in the wait that interrupt ends.  When the       *)
(* counter reaches a compare value earlier (before the main loop has       *)
(* stored the following timer_next_interrupt, or before it has set timecmp *)
(* to UINT64_MAX), the handler re-arms the timer with a compare value the  *)
(* counter has reached already and runs again at once.                     *)
(***************************************************************************)
\* The step is a run of handle_timer_interrupt.
C26_HandlerRuns ==
    \/ timer_count_interrupts' # timer_count_interrupts
    \/ timecmp' # timecmp /\ main_pc' = main_pc

C26_WaitStep ==
    (main_pc = "wait" /\ main_pc' = "check") => timer_count_interrupts >= timer_i

\* The n-th run counts to n and arms the compare value of interrupt n + 1.
C26_HandlerStep ==
    C26_HandlerRuns
    => /\ timer_count_interrupts' = timer_count_interrupts + 1
       /\ timecmp' = NextInterruptAt(timer_count_interrupts')
       /\ timecmp' > counter

C26_Cancelled ==
    main_pc \in {"final_check", "timer_disable"} => ~C26_HandlerRuns

C26_Count ==
    /\ timer_count_interrupts <= num_interrupts
    /\ main_pc \in {"final_check", "timer_disable"}
        => timer_count_interrupts = num_interrupts

C26_UntimelyStep ==
    (C26_HandlerRuns /\ untimely') => timecmp' <= counter

C27_Forward ==
    /\ test_state' \in {test_state, test_state + 1}
    /\ test_state' \in 0 .. 4

C27_Finished ==
    main_pc = "finished" => (traps = <<1, 3>> /\ test_state = 4)

\* The step enters handle_unexpected_trap.
C27_OtherState ==
    (traps' # traps /\ test_state \notin {1, 3})
    => (main_pc' = "exited" /\ exit_status' = 1)

C27_StatusZero == exit_status = 0 => traps = <<1, 3>>

C27_SelfTest ==
    /\ [](C27_Finished /\ C27_StatusZero)
    /\ [][C27_Forward /\ C27_OtherState]_vars

\* The misaligned load did not trap, and main has returned 0.
C27_Witness ==
    /\ main_pc = "returned"
    /\ exit_status = 0
    /\ traps = <<>>
    /\ test_state = 1

(***************************************************************************)
(* C28: parse_uint returns -1 for every decimal or 0x-prefixed hexadecimal *)
(* digit string whose numeric value exceeds UINT32_MAX and for input with  *)
(* no digit; otherwise it stores exactly the numeric value in *val and     *)
(* returns the number of characters consumed, leading spaces included.  It *)
(* never stores a value that has been reduced modulo 2^32.                 *)
(***************************************************************************)
\* The digits of the given base that s holds from position k on.
RECURSIVE DigitRun(_, _, _)
DigitRun(s, k, base) ==
    LET ch == CharAt(s, k)
        d == IF ch \in 48 .. 57 THEN ch - 48
             ELSE IF base = 16 /\ ch \in 97 .. 102 THEN ch - 87
             ELSE IF base = 16 /\ ch \in 65 .. 70 THEN ch - 55
             ELSE -1
    IN  IF d < 0 THEN <<>> ELSE <<d>> \o DigitRun(s, k + 1, base)

\* The number the digits ds denote, as hi * 2^16 + lo with hi not reduced.
RECURSIVE NumericValue(_, _)
NumericValue(ds, base) ==
    IF ds = <<>> THEN [hi |-> 0, lo |-> 0]
    ELSE LET r == NumericValue(SubSeq(ds, 1, Len(ds) - 1), base)
             lo == base * r.lo + ds[Len(ds)]
         IN  [hi |-> base * r.hi + lo \div 65536, lo |-> lo % 65536]

C28_Parsed(r) ==
    LET blanks == CHOOSE k \in 0 .. Len(r.s) :
                    /\ \A j \in 1 .. k : r.s[j] = 32
                    /\ CharAt(r.s, k) # 32
        hex == CharAt(r.s, blanks) = 48 /\ CharAt(r.s, blanks + 1) \in {120, 88}
        base == IF hex THEN 16 ELSE 10
        start == IF hex THEN blanks + 2 ELSE blanks
        ds == DigitRun(r.s, start, base)
        n == NumericValue(ds, base)
    IN  IF ds = <<>> \/ n.hi > UINT32_MAX.hi
            THEN r.ret = -1 /\ r.val = Unset
        ELSE r.ret = start + Len(ds) /\ r.val = n

C28_ParseUint == \A j \in 1 .. Len(parsed) : C28_Parsed(parsed[j])

\* "4294967296" is parsed as 0 with all ten characters consumed.
C28_Witness ==
    /\ Len(parsed) >= 1
    /\ parsed[1].s = Dec(<<4, 2, 9, 4, 9, 6, 7, 2, 9, 6>>)
    /\ parsed[1].ret = 10
    /\ parsed[1].val = [hi |-> 0, lo |-> 0]

(***************************************************************************)
(* C29: read_command never writes outside cmdbuf[0 .. maxlen-1]: for every *)
(* sequence of received characters, backspaces on an empty line and lines  *)
(* longer than maxlen included, pos stays within 0 .. maxlen-1, the        *)
(* terminating NUL is written at index pos, a backspace removes at most    *)
(* the last stored character, and characters received while the buffer is  *)
(* full are dropped and not echoed.                                        *)
(***************************************************************************)
C29_InBounds ==
    /\ pos \in 0 .. CmdBufLen - 1
    /\ written \subseteq 0 .. CmdBufLen - 1
    /\ cmdbuf[CmdBufLen] = 0

\* The step receives a character.
C29_Received == nrecv' = nrecv + 1

C29_EndStep ==
    (C29_Received /\ recv_c' \in {13, 10})
    => /\ reading' = "done"
       /\ pos' = pos
       /\ cmdbuf' = [cmdbuf EXCEPT ![pos] = 0]
       /\ echoed' = echoed

C29_BackspaceStep ==
    (C29_Received /\ recv_c' = 8)
    => /\ pos' = (IF pos = 0 THEN 0 ELSE pos - 1)
       /\ cmdbuf' = cmdbuf

\* The buffer is full when pos + 1 = maxlen: the last cell is kept for the
\* NUL.  A character that is neither a backspace nor a line end then
\* changes nothing and is not echoed.
C29_FullStep ==
    (C29_Received /\ recv_c' \notin {8, 13, 10} /\ pos = CmdBufLen - 1)
    => UNCHANGED <<pos, cmdbuf, written, echoed>>

\* With room left the character is stored at pos, and echoed when echo is
\* on.
C29_StoreStep ==
    (C29_Received /\ recv_c' \notin {8, 13, 10} /\ pos < CmdBufLen - 1)
    => /\ cmdbuf' = [cmdbuf EXCEPT ![pos] = recv_c']
       /\ pos' = pos + 1
       /\ echoed' = (IF cmd_echo # 0 THEN Append(echoed, recv_c') ELSE echoed)

C29_ReadCommand ==
    /\ []C29_InBounds
    /\ [][C29_EndStep /\ C29_BackspaceStep /\ C29_FullStep /\ C29_StoreStep]_vars

\* A line longer than the buffer, with echo on: five characters received,
\* two stored and echoed, then a backspace on the full buffer and the line
\* end.
C29_Witness ==
    /\ reading = "done"
    /\ cmd_echo = 1
    /\ nrecv = 5
    /\ pos = CmdBufLen - 2
    /\ echoed = <<97, 97, 8>>
    /\ cmdbuf = [k \in 0 .. CmdBufLen |-> IF k = 0 THEN 97 ELSE 0]

====
